---- MODULE Spec2Model ----
(***************************************************************************)
(* pg2parquet: the appender tree that turns PostgreSQL rows into Dremel    *)
(* (value, DL, RL) streams, the planner that builds it and the row-group   *)
(* writer that drives it.  Modelled from src/cli/src.                      *)
(***************************************************************************)
EXTENDS Integers, Sequences, FiniteSets, TLC

VARIABLES
    schema,               \* which query (result columns + settings) is exported
    columns,              \* Statement::columns of the query: the name and the type
                          \* of every result column
    appender,             \* ParquetRowWriter.appender: the root of the appender tree
    leaf,                 \* the mutable fields of every GenericColumnAppender of the tree
    stats,                \* ParquetRowWriter.stats
    current_group_bytes,  \* ParquetRowWriter.current_group_bytes
    current_group_rows,   \* ParquetRowWriter.current_group_rows
    settings,             \* ParquetRowWriter.settings (WriterSettings)
    written,              \* per leaf: what write_batch has received so far (counts)
    log,                  \* the calls made inside the appender tree by the last write_row
    calls,                \* per appender: copy_value + write_null calls received so far
    pc,                   \* "running", "closed" or "panicked"
    debug_assertions,     \* whether the build checks debug_assert!
    ba,                   \* a ByteArrayColumnAppender driven on its own
    fba,                  \* a FixedByteArrayColumnAppender driven on its own
    rows,                 \* the rows for which write_row has returned Ok, in order
    writer,               \* ParquetRowWriter.writer: the row groups written, in order,
                          \* each the batches its column writers received
    stderr,               \* the warnings written to stderr so far, in order
    warned,               \* the array closures whose flag `warned` is set
    io,                   \* the calls the last write_row or close made on the file
                          \* writer (SerializedFileWriter, row group and column
                          \* writers), in order
    fail,                 \* the environment: the one call of the export that returns
                          \* an error (NoFailure when none does)
    file,                 \* the output path: "untouched", "created" (truncated and
                          \* written to, without a footer) or "finalised"
    exit                  \* <<>> while the process runs, <<code>> once it has exited

vars == <<schema, columns, appender, leaf, stats, current_group_bytes, current_group_rows,
          settings, written, log, calls, pc, debug_assertions, ba, fba, rows,
          writer, stderr, warned, io, fail, file, exit>>

----------------------------------------------------------------------------
(* Bounds of the model *)

\* rows fed to write_row in one export
MaxRows == 3
\* elements of an array value
MaxArrayLen == 2
\* appends / write_nulls made on a byte-array appender driven on its own
MaxAppends == 3

(* Program constants *)

\* usize::MAX, the sentinel of LevelIndexState::new.  The checker's integers are
\* 32 bits wide, so the sentinel is its largest integer; every index of the model
\* stays far below it, as every index of the program stays below usize::MAX.
USIZE_MAX == 2147483647

\* i32::MAX
I32_MAX == 2147483647

----------------------------------------------------------------------------
(* Option<T> *)

\* the value of ba / fba when that leaf is not the one driven
Absent == [kind |-> "Absent"]

None == [some |-> FALSE]
Some(x) == [some |-> TRUE, v |-> x]

Bool2Int(b) == IF b THEN 1 ELSE 0

\* all sequences over S of length at most n
SeqsUpTo(S, n) == UNION { [1..k -> S] : k \in 0..n }

IsPrefix(p, q) == Len(p) <= Len(q) /\ SubSeq(q, 1, Len(p)) = p

----------------------------------------------------------------------------
(* level_index.rs: LevelIndexList, a path of indexes from level 0 to the     *)
(* current level, is the sequence <<index at level 0, ..., index at level>>.  *)

\* LevelIndexList::new() in place of new_i: every row starts at index 0
LevelIndexList_new_zero(index) == <<0>>

LevelIndexList_new_i(index) == <<index>>

LevelIndexList_new_child(self) == Append(self, 0)

\* an inc that leaves the index where it is
LevelIndexList_inc_stuck(self) == self

LevelIndexList_inc(self) == [self EXCEPT ![Len(self)] = @ + 1]

LevelIndexList_level(self) == Len(self) - 1

(* LevelIndexState.indexes is a sequence of level + 1 remembered indexes. *)

\* a tracker that starts from index 0 instead of the usize::MAX sentinel
LevelIndexState_new_zeroed(level) == [i \in 1..(level + 1) |-> 0]

LevelIndexState_new(level) == [i \in 1..(level + 1) |-> USIZE_MAX]

LevelIndexState_level(indexes) == Len(indexes) - 1

\* copy_and_diff's loop reporting the changed level counted from 1
RECURSIVE copy_and_diff_loop_one_based(_, _, _, _)
copy_and_diff_loop_one_based(indexes, other, i, result) ==
    LET differs == indexes[i + 1] # other[i + 1]
        indexes2 == IF differs THEN [indexes EXCEPT ![i + 1] = other[i + 1]] ELSE indexes
        result2 == IF differs THEN i + 1 ELSE result
    IN  IF i = 0
        THEN [indexes |-> indexes2, result |-> result2, ok |-> TRUE]
        ELSE copy_and_diff_loop_one_based(indexes2, other, i - 1, result2)

\* copy_and_diff's loop leaving at the first level, from the leaf up, whose index
\* differs
RECURSIVE copy_and_diff_loop_break(_, _, _, _)
copy_and_diff_loop_break(indexes, other, i, result) ==
    LET differs == indexes[i + 1] # other[i + 1]
        indexes2 == IF differs THEN [indexes EXCEPT ![i + 1] = other[i + 1]] ELSE indexes
        result2 == IF differs THEN i ELSE result
    IN  IF i = 0 \/ differs
        THEN [indexes |-> indexes2, result |-> result2, ok |-> TRUE]
        ELSE copy_and_diff_loop_break(indexes2, other, i - 1, result2)

\* the loop of copy_and_diff, from level i up to the root
RECURSIVE copy_and_diff_loop(_, _, _, _)
copy_and_diff_loop(indexes, other, i, result) ==
    LET differs == indexes[i + 1] # other[i + 1]
        indexes2 == IF differs THEN [indexes EXCEPT ![i + 1] = other[i + 1]] ELSE indexes
        result2 == IF differs THEN i ELSE result
    IN  IF i = 0
        THEN [indexes |-> indexes2, result |-> result2, ok |-> TRUE]
        ELSE copy_and_diff_loop(indexes2, other, i - 1, result2)

\* LevelIndexState::copy_and_diff.  ok = FALSE is a panic: the debug assertion on
\* the levels, or the index out of bounds a deeper path runs into without it.
LevelIndexState_copy_and_diff(indexes, other, dbg) ==
    IF LevelIndexState_level(indexes) # LevelIndexList_level(other)
       /\ (dbg \/ LevelIndexList_level(other) > LevelIndexState_level(indexes))
    THEN [indexes |-> indexes, result |-> 0, ok |-> FALSE]
    ELSE copy_and_diff_loop(indexes, other, LevelIndexList_level(other),
                            LevelIndexList_level(other))

----------------------------------------------------------------------------
(* datatypes/interval.rs.  An i64 is wider than the checker's integers: it is  *)
(* kept as its sign and the digits of its magnitude in base 1000, the most     *)
(* significant first (<<>> is 0).                                              *)
(*   PgInterval         [microseconds: i64, days: i32, months: i32]            *)
(*   FixedLenByteArray  of an interval: [months, days, millis], the three i32  *)
(*                      whose little-endian bytes are b[0..4], b[4..8] and     *)
(*                      b[8..12]                                               *)

I64(neg, limbs) == [neg |-> neg, limbs |-> limbs]

PgInterval(microseconds, days, months) ==
    [microseconds |-> microseconds, days |-> days, months |-> months]

\* 1000 * 60 * 60 * 24
ms_per_day == 86400000

RECURSIVE LongDivMod(_, _, _, _)
\* the division of a magnitude by d, digit by digit, given the quotient q and
\* the remainder r of the digits before limbs: the quotient (an integer of the
\* checker) and the remainder
LongDivMod(limbs, d, q, r) ==
    IF limbs = <<>> THEN [q |-> q, r |-> r]
    ELSE LET x == r * 1000 + Head(limbs)
         IN  LongDivMod(Tail(limbs), d, q * 1000 + x \div d, x % d)

\* all digits of a magnitude but the last one (the magnitude divided by 1000)
Div1000(limbs) == IF limbs = <<>> THEN <<>> ELSE SubSeq(limbs, 1, Len(limbs) - 1)

\* the last digit of a magnitude (its remainder by 1000)
Mod1000(limbs) == IF limbs = <<>> THEN 0 ELSE limbs[Len(limbs)]

\* t.days + days as i32: on overflow the sum wraps around in a build without
\* overflow checks and the addition panics in a build with them
I32_add(a, b) ==
    IF a > 0 /\ b > I32_MAX - a
    THEN [overflow |-> TRUE, v |-> (a - I32_MAX - 1) + (b - I32_MAX - 1)]
    ELSE IF a < 0 /\ b < (-I32_MAX - 1) - a
    THEN [overflow |-> TRUE, v |-> (a + I32_MAX + 1) + (b + I32_MAX + 1)]
    ELSE [overflow |-> FALSE, v |-> a + b]

\* MyFrom<PgInterval> for FixedLenByteArray: millis_total = microseconds / 1000,
\* days = millis_total / ms_per_day and millis = millis_total % ms_per_day, the
\* divisions of Rust, which round towards zero and give the remainder the sign
\* of the dividend.  The division by ms_per_day is made in two steps, by 1000
\* and by ms_per_day / 1000.
PgInterval_my_from(t) ==
    LET millis_total == Div1000(t.microseconds.limbs)
        dm == LongDivMod(Div1000(millis_total), ms_per_day \div 1000, 0, 0)
        m == dm.r * 1000 + Mod1000(millis_total)
        days == IF t.microseconds.neg THEN -dm.q ELSE dm.q
        millis == IF t.microseconds.neg THEN -m ELSE m
        sum == I32_add(t.days, days)
    IN  [overflow |-> sum.overflow,
         b |-> [months |-> t.months, days |-> sum.v, millis |-> millis]]

----------------------------------------------------------------------------
(* myfrom.rs, real_memory_size.rs: a conversion is named by its Rust types.    *)
(* A text value is its sequence of bytes, a MacAddress the sequence of its six *)
(* bytes, and the i64 made of a MacAddress the sequence of its eight bytes,    *)
(* the most significant first.                                                 *)

\* MyFrom<eui48::MacAddress> for i64: b = [0u8; 8], b[0..6] = t.as_bytes(),
\* i64::from_be_bytes(b)
MacAddress_to_i64(t) ==
    LET b == [i \in 1..8 |-> IF i <= 6 THEN t[i] ELSE 0]
    IN  b

\* MyFrom::my_from for the conversions the planner of this model uses
MyFrom(conversion, value) ==
    CASE conversion = "i32->i32" -> value
      [] conversion = "bool->bool" -> value
      [] conversion = "f32->f32" -> value
      [] conversion = "String->ByteArray" -> value
      [] conversion = "i64->i64" -> value
      [] conversion = "PgInterval->FixedLenByteArray" -> PgInterval_my_from(value).b
      [] conversion = "MacAddress->i64" -> MacAddress_to_i64(value)
      [] conversion = "PgEnum->i32" -> value.case
      [] conversion = "PgEnum->ByteArray" -> value.name
      [] conversion = "|v| v.0 + 1" -> value[1] + 1
      [] conversion = "|v| v.1" -> value[2]
      [] OTHER -> value

\* whether my_from panics: the only arithmetic that can overflow is the sum of
\* the days of an interval
MyFrom_panics(conversion, value, overflow_checks) ==
    /\ conversion = "PgInterval->FixedLenByteArray"
    /\ overflow_checks
    /\ PgInterval_my_from(value).overflow

\* RealMemorySize::real_memory_size of a converted value
real_memory_size(conversion, pq_value) ==
    CASE conversion = "i32->i32" -> 4
      [] conversion = "bool->bool" -> 1
      [] conversion = "f32->f32" -> 4
      [] conversion = "String->ByteArray" -> Len(pq_value)
      [] conversion = "i64->i64" -> 8
      [] conversion = "PgInterval->FixedLenByteArray" -> 12
      [] conversion = "MacAddress->i64" -> 8
      [] conversion \in {"PgEnum->i32", "mapping.get"} -> 4
      [] conversion \in {"|v| v.0 + 1", "|v| v.1"} -> 4
      [] conversion = "PgEnum->ByteArray" -> Len(pq_value)
      [] OTHER -> 0

----------------------------------------------------------------------------
(* appenders/generic.rs: GenericColumnAppender.  The immutable part (max_dl,  *)
(* max_rl, conversion) is the node of the tree, the buffers and the tracker   *)
(* are the leaf's state.                                                      *)

GenericColumnAppender_new(max_dl, max_rl, conversion) ==
    IF max_dl < 0 \/ max_rl < 0
    THEN [kind |-> "Panic"]
    ELSE [kind |-> "Generic", max_dl |-> max_dl, max_rl |-> max_rl,
          conversion |-> conversion]

GenericColumnAppender_state(a) ==
    [column |-> <<>>, dls |-> <<>>, rls |-> <<>>,
     repetition_index |-> LevelIndexState_new(a.max_rl)]

\* GenericColumnAppender::write_null; the result is the new state, the returned
\* byte count and ok = FALSE for a panic
GenericColumnAppender_write_null(a, s, repetition_index, level, dbg) ==
    IF dbg /\ ~(level < a.max_dl)
    THEN [s |-> s, ret |-> 0, ok |-> FALSE]
    ELSE LET s1 == [s EXCEPT !.dls = Append(@, level)]
         IN  IF a.max_rl > 0
             THEN LET d == LevelIndexState_copy_and_diff(s1.repetition_index,
                                                         repetition_index, dbg)
                  IN  [s |-> [s1 EXCEPT !.repetition_index = d.indexes,
                                        !.rls = Append(@, d.result)],
                       ret |-> 4, ok |-> d.ok]
             ELSE [s |-> s1, ret |-> 2, ok |-> TRUE]

\* the convert closure of the leaf a applied to value: my_from, or the closure
\* of the int enum mode, which looks the label up in the mapping it captured
convert(a, value) ==
    IF a.conversion = "mapping.get"
    THEN (IF value.name \in DOMAIN a.mapping THEN a.mapping[value.name] ELSE 0)
    ELSE MyFrom(a.conversion, value)

\* whether convert panics: my_from on overflow, the closure of the int enum
\* mode on a label that is not in its mapping
convert_panics(a, value, overflow_checks) ==
    IF a.conversion = "mapping.get"
    THEN value.name \notin DOMAIN a.mapping
    ELSE MyFrom_panics(a.conversion, value, overflow_checks)

\* GenericColumnAppender::copy_value pushing the value at the front of the buffer
GenericColumnAppender_copy_value_push_front(a, s, repetition_index, value, dbg) ==
    LET pq_value == MyFrom(a.conversion, value)
        byte_size == real_memory_size(a.conversion, pq_value)
        s1 == [s EXCEPT !.column = <<pq_value>> \o @]
        s2 == IF a.max_dl > 0 THEN [s1 EXCEPT !.dls = Append(@, a.max_dl)] ELSE s1
        ret == byte_size + Bool2Int(a.max_dl > 0) * 2 + Bool2Int(a.max_rl > 0) * 2
    IN  IF a.max_rl > 0
        THEN LET d == LevelIndexState_copy_and_diff(s2.repetition_index,
                                                    repetition_index, dbg)
             IN  [s |-> [s2 EXCEPT !.repetition_index = d.indexes,
                                   !.rls = Append(@, d.result)],
                  ret |-> ret, ok |-> d.ok]
        ELSE [s |-> s2, ret |-> ret, ok |-> TRUE]

\* GenericColumnAppender::copy_value
GenericColumnAppender_copy_value(a, s, repetition_index, value, dbg) ==
    LET pq_value == convert(a, value)
        byte_size == real_memory_size(a.conversion, pq_value)
        s1 == [s EXCEPT !.column = Append(@, pq_value)]
        s2 == IF a.max_dl > 0 THEN [s1 EXCEPT !.dls = Append(@, a.max_dl)] ELSE s1
        ret == byte_size + Bool2Int(a.max_dl > 0) * 2 + Bool2Int(a.max_rl > 0) * 2
    IN  IF a.max_rl > 0
        THEN LET d == LevelIndexState_copy_and_diff(s2.repetition_index,
                                                    repetition_index, dbg)
             IN  [s |-> [s2 EXCEPT !.repetition_index = d.indexes,
                                   !.rls = Append(@, d.result)],
                  ret |-> ret, ok |-> d.ok /\ ~convert_panics(a, value, dbg)]
        ELSE [s |-> s2, ret |-> ret, ok |-> ~convert_panics(a, value, dbg)]

\* a write_column that also forgets the path of the last record
GenericColumnAppender_write_column_reset_tracker(a, s) ==
    [batch |-> [values |-> s.column,
                dls |-> IF a.max_dl > 0 THEN Some(s.dls) ELSE None,
                rls |-> IF a.max_rl > 0 THEN Some(s.rls) ELSE None],
     s |-> [s EXCEPT !.column = <<>>, !.dls = <<>>, !.rls = <<>>,
                     !.repetition_index = LevelIndexState_new(a.max_rl)]]

\* a write_column that also moves the tracker on to the next row
GenericColumnAppender_write_column_advancing(a, s) ==
    [batch |-> [values |-> s.column,
                dls |-> IF a.max_dl > 0 THEN Some(s.dls) ELSE None,
                rls |-> IF a.max_rl > 0 THEN Some(s.rls) ELSE None],
     s |-> [s EXCEPT !.column = <<>>, !.dls = <<>>, !.rls = <<>>,
                     !.repetition_index[1] = IF @ = USIZE_MAX THEN 0 ELSE @ + 1]]

\* a write_column that hands over all records but the last one buffered, which
\* it keeps for the next row group
GenericColumnAppender_write_column_keep_last(a, s) ==
    LET n == Len(s.dls)
        keep == Bool2Int(n > 1)
        nv == Len(s.column) - (IF n > 1 /\ s.dls[n] = a.max_dl THEN 1 ELSE 0)
        nr == IF Len(s.rls) > 0 THEN Len(s.rls) - keep ELSE 0
    IN  [batch |-> [values |-> SubSeq(s.column, 1, nv),
                    dls |-> IF a.max_dl > 0 THEN Some(SubSeq(s.dls, 1, n - keep)) ELSE None,
                    rls |-> IF a.max_rl > 0 THEN Some(SubSeq(s.rls, 1, nr)) ELSE None],
         s |-> [s EXCEPT !.column = SubSeq(s.column, nv + 1, Len(s.column)),
                         !.dls = SubSeq(s.dls, n - keep + 1, n),
                         !.rls = SubSeq(s.rls, nr + 1, Len(s.rls))]]

\* GenericColumnAppender::write_column: the batch handed to write_batch and the
\* state with the three buffers cleared
GenericColumnAppender_write_column(a, s) ==
    [batch |-> [values |-> s.column,
                dls |-> IF a.max_dl > 0 THEN Some(s.dls) ELSE None,
                rls |-> IF a.max_rl > 0 THEN Some(s.rls) ELSE None],
     s |-> [s EXCEPT !.column = <<>>, !.dls = <<>>, !.rls = <<>>]]

----------------------------------------------------------------------------
(* The appender tree.  An appender is a record with its kind and fields, its   *)
(* children nested in it.  An appender is addressed by its path from the root  *)
(* (the sequence of child numbers), which also names a leaf's state.           *)

\* BasicPgRowColumnAppender::new; row names the PgAbstractRow type TRow read from
BasicPgRowColumnAppender_new(column_i, a, row) ==
    [kind |-> "PgRow", column_i |-> column_i, appender |-> a, row |-> row]

\* PreprocessAppender::new; f names the projection closure
PreprocessAppender_new(a, f) == [kind |-> "Preprocess", appender |-> a, f |-> f]

\* RcWrapperAppender::new
RcWrapperAppender_new(inner) == [kind |-> "Rc", inner |-> inner]

\* Box<dyn ColumnAppender<T>> (DynColumnAppender)
Box_new(inner) == [kind |-> "Box", inner |-> inner]

\* UnwrapOptionAppender::new: an appender of Option<T> over an appender of T
UnwrapOptionAppender_new(inner) == [kind |-> "UnwrapOption", inner |-> inner]

\* DynamicMergedAppender::new
DynamicMergedAppender_new(cols, max_dl, max_rl) ==
    [kind |-> "DynamicMerged", columns |-> cols, max_dl |-> max_dl, max_rl |-> max_rl]

\* new_static_merged_appender
new_static_merged_appender(max_dl, max_rl) ==
    [kind |-> "StaticNil", max_dl |-> max_dl, max_rl |-> max_rl]

\* StaticMergedAppender::add_appender
add_appender(self, a) == [kind |-> "StaticImpl", appender |-> a, next |-> self]

\* StaticMergedAppender::add_appender_map
add_appender_map(self, a, f) == add_appender(self, PreprocessAppender_new(a, f))

RECURSIVE max_dl(_)
\* ColumnAppenderBase::max_dl of every implementation
max_dl(a) ==
    CASE a.kind = "Generic" -> a.max_dl
      [] a.kind = "PgRow" -> max_dl(a.appender)
      [] a.kind = "Preprocess" -> max_dl(a.appender)
      [] a.kind = "Rc" -> max_dl(a.inner)
      [] a.kind = "Box" -> max_dl(a.inner)
      [] a.kind = "UnwrapOption" -> max_dl(a.inner)
      [] a.kind = "Array" -> a.dl
      [] a.kind = "DynamicMerged" -> a.max_dl
      [] a.kind = "StaticImpl" -> max_dl(a.next)
      [] a.kind = "StaticNil" -> a.max_dl
      [] a.kind = "Range" -> max_dl(a.is_empty_col) - 1

RECURSIVE max_rl(_)
\* ColumnAppenderBase::max_rl of every implementation
max_rl(a) ==
    CASE a.kind = "Generic" -> a.max_rl
      [] a.kind = "PgRow" -> max_rl(a.appender)
      [] a.kind = "Preprocess" -> max_rl(a.appender)
      [] a.kind = "Rc" -> max_rl(a.inner)
      [] a.kind = "Box" -> max_rl(a.inner)
      [] a.kind = "UnwrapOption" -> max_rl(a.inner)
      [] a.kind = "Array" -> max_rl(a.inner) - 1
      [] a.kind = "DynamicMerged" -> a.max_rl
      [] a.kind = "StaticImpl" -> max_rl(a.next)
      [] a.kind = "StaticNil" -> a.max_rl
      [] a.kind = "Range" -> max_rl(a.is_empty_col)

\* ArrayColumnAppender::new; is_nullable is TItem::IS_NULLABLE of the arrays it is
\* used with
ArrayColumnAppender_new(inner, allow_null, allow_element_null, dl, rl, is_nullable) ==
    IF \/ inner.kind = "Panic"
       \/ max_rl(inner) # rl + 1
       \/ max_dl(inner) # dl + 1 + Bool2Int(allow_element_null)
       \/ dl < Bool2Int(allow_null)
       \/ rl < 0
    THEN [kind |-> "Panic"]
    ELSE [kind |-> "Array", inner |-> inner, dl |-> dl, rl |-> rl,
          allow_null |-> allow_null, allow_element_null |-> allow_element_null,
          is_nullable |-> is_nullable]

\* RangeColumnAppender::new
RangeColumnAppender_new(column) ==
    [kind |-> "Range", lower_col |-> column, upper_col |-> column,
     is_empty_col |-> GenericColumnAppender_new(max_dl(column), max_rl(column), "bool->bool"),
     lower_incl_col |-> GenericColumnAppender_new(max_dl(column), max_rl(column), "bool->bool"),
     upper_incl_col |-> GenericColumnAppender_new(max_dl(column), max_rl(column), "bool->bool")]

\* the children of an appender, in the order of their numbers (the order in which
\* write_columns visits them)
Children(a) ==
    CASE a.kind = "PgRow" -> <<a.appender>>
      [] a.kind = "Preprocess" -> <<a.appender>>
      [] a.kind = "Rc" -> <<a.inner>>
      [] a.kind = "Box" -> <<a.inner>>
      [] a.kind = "UnwrapOption" -> <<a.inner>>
      [] a.kind = "Array" -> <<a.inner>>
      [] a.kind = "DynamicMerged" -> a.columns
      [] a.kind = "StaticImpl" -> <<a.next, a.appender>>
      [] a.kind = "Range" -> <<a.lower_col, a.upper_col, a.is_empty_col,
                               a.lower_incl_col, a.upper_incl_col>>
      [] OTHER -> <<>>

RECURSIVE NodeIds(_, _)
\* the paths of all appenders of the tree a, whose own path is id
NodeIds(a, id) ==
    {id} \cup UNION { NodeIds(Children(a)[i], Append(id, i)) : i \in 1..Len(Children(a)) }

RECURSIVE NodeAt(_, _)
\* the appender at path id below a
NodeAt(a, id) == IF id = <<>> THEN a ELSE NodeAt(Children(a)[Head(id)], Tail(id))

LeafIds(a) == { id \in NodeIds(a, <<>>) : NodeAt(a, id).kind = "Generic" }

\* whether the construction of a part of the tree a panicked
Panics(a) == \E id \in NodeIds(a, <<>>) : NodeAt(a, id).kind = "Panic"

----------------------------------------------------------------------------
(* pg_custom_types.rs, datatypes/array.rs: the decoded values.                 *)
(*   postgres::Row     [cols |-> sequence of Option<raw value>]               *)
(*   PgRawRecord       [fields |-> sequence of Option<raw value>]             *)
(*   PgAny             the raw value of an array element                      *)
(*   PgRawRange        [lower, upper, lower_inclusive, upper_inclusive,       *)
(*                      is_empty]                                             *)
(*   PgMultidimArray   [data, dims, lower_bounds]                             *)

\* PgAbstractRow::ab_get::<Option<T>>(index) of the row type named row; ok = FALSE
\* is a panic
ab_get(row, reader, index) ==
    CASE row = "Row" ->
            IF index < Len(reader.cols)
            THEN [ok |-> TRUE, val |-> reader.cols[index + 1]]
            ELSE [ok |-> FALSE, val |-> None]
      [] row = "PgRawRecord" ->
            IF Len(reader.fields) < index
            THEN [ok |-> TRUE, val |-> None]
            ELSE IF index < Len(reader.fields)
                 THEN [ok |-> TRUE, val |-> reader.fields[index + 1]]
                 ELSE [ok |-> FALSE, val |-> None]
      [] row = "PgAny" ->
            IF debug_assertions /\ index # 0
            THEN [ok |-> FALSE, val |-> None]
            ELSE [ok |-> TRUE, val |-> Some(reader)]
      [] row = "PgRawRange" ->
            CASE index = 0 -> [ok |-> TRUE, val |-> reader.lower]
              [] index = 1 -> [ok |-> TRUE, val |-> reader.upper]
              [] OTHER -> [ok |-> FALSE, val |-> None]

\* the closures, the one of the lower bounds keeping only the first of the
\* per-dimension values
Project_first_lower_bound(f, x) ==
    CASE f = "data" -> x.data
      [] f = "dims" ->
            IF x.dims.some
            THEN [i \in 1..Len(x.dims.v) |-> Some(x.dims.v[i])]
            ELSE IF Len(x.data) = 0 THEN <<>> ELSE <<Some(Len(x.data))>>
      [] f = "lower_bound" ->
            IF Len(x.data) = 0 THEN <<>>
            ELSE IF x.lower_bounds.kind = "Const"
                 THEN [i \in 1..(IF x.dims.some THEN Len(x.dims.v) ELSE 1)
                         |-> Some(x.lower_bounds.c)]
                 ELSE <<Some(x.lower_bounds.v[1])>>
      [] f = "lower_inclusive" -> x.lower_inclusive
      [] f = "upper_inclusive" -> x.upper_inclusive
      [] f = "is_empty" -> x.is_empty
      [] f = "UnclonableHack" -> x
      [] f = "months" -> x.months
      [] f = "days" -> x.days
      [] f = "microseconds" -> x.microseconds

\* the projection closures the planner hands to preprocess / add_appender_map
Project(f, x) ==
    CASE f = "data" -> x.data
      [] f = "dims" ->
            IF x.dims.some
            THEN [i \in 1..Len(x.dims.v) |-> Some(x.dims.v[i])]
            ELSE IF Len(x.data) = 0 THEN <<>> ELSE <<Some(Len(x.data))>>
      [] f = "lower_bound" ->
            IF Len(x.data) = 0 THEN <<>>
            ELSE IF x.lower_bounds.kind = "Const"
                 THEN [i \in 1..(IF x.dims.some THEN Len(x.dims.v) ELSE 1)
                         |-> Some(x.lower_bounds.c)]
                 ELSE [i \in 1..Len(x.lower_bounds.v) |-> Some(x.lower_bounds.v[i])]
      [] f = "lower_inclusive" -> x.lower_inclusive
      [] f = "upper_inclusive" -> x.upper_inclusive
      [] f = "is_empty" -> x.is_empty
      [] f = "UnclonableHack" -> x
      [] f = "months" -> x.months
      [] f = "days" -> x.days
      [] f = "microseconds" -> x.microseconds

----------------------------------------------------------------------------
(* datatypes/numeric.rs and the pg_bigdecimal values it converts.              *)
(*   BigInt       [m, z], the integer m * 10^z (z = 0 when m = 0): the         *)
(*                integers met here are wider than 32 bits                    *)
(*   BigDecimal   [int_val, scale], the number int_val * 10^(-scale)          *)
(*   PgNumeric    [n |-> Option<BigDecimal>], n = None for NaN                *)
(* An Int (i32 or i64) that try_into returns is kept as the BigInt it came    *)
(* from, with the trailing zeros of m moved into z.                           *)

\* i64::MAX \div 10^10
I64_MAX_DIV_1E10 == 922337203

Abs(m) == IF m < 0 THEN -m ELSE m

BigInt(m, z) == [m |-> m, z |-> IF m = 0 THEN 0 ELSE z]

BigDecimal(m, scale) == [int_val |-> BigInt(m, 0), scale |-> scale]

PgNumeric(n) == [n |-> n]

RECURSIVE DecimalDigits(_)
\* the number of decimal digits of m
DecimalDigits(m) == IF Abs(m) < 10 THEN 1 ELSE 1 + DecimalDigits(Abs(m) \div 10)

\* BigDecimal::digits
BigDecimal_digits(d) == DecimalDigits(d.int_val.m) + d.int_val.z

\* m / 10^k of BigInt's division, which truncates
TruncDiv(m, k) ==
    IF k > 9 THEN 0
    ELSE IF m < 0 THEN -((-m) \div 10^k) ELSE m \div 10^k

\* BigDecimal::with_prec: the number with prec significant digits, rounded to
\* the nearest when it had more (no number of this model is a tie)
BigDecimal_with_prec(d, prec) ==
    LET i == d.int_val
        digits == BigDecimal_digits(d)
    IN  IF digits > prec
        THEN LET diff == digits - prec
             IN  IF diff <= i.z
                 THEN [int_val |-> BigInt(i.m, i.z - diff), scale |-> d.scale - diff]
                 ELSE LET p == 10^(diff - i.z)
                          q == Abs(i.m) \div p
                          r == Abs(i.m) % p
                          rounded == IF 2 * r >= p THEN q + 1 ELSE q
                      IN  [int_val |-> BigInt(IF i.m < 0 THEN -rounded ELSE rounded, 0),
                           scale |-> d.scale - diff]
        ELSE IF digits < prec
             THEN [int_val |-> BigInt(i.m, i.z + (prec - digits)),
                   scale |-> d.scale + (prec - digits)]
             ELSE d

\* BigDecimal::with_scale: the number with the scale new_scale, its further
\* digits cut off
BigDecimal_with_scale(d, new_scale) ==
    LET i == d.int_val
    IN  IF i.m = 0
        THEN [int_val |-> BigInt(0, 0), scale |-> new_scale]
        ELSE IF new_scale > d.scale
        THEN [int_val |-> BigInt(i.m, i.z + (new_scale - d.scale)), scale |-> new_scale]
        ELSE IF new_scale < d.scale
        THEN LET scale_diff == d.scale - new_scale
             IN  [int_val |-> IF scale_diff <= i.z
                              THEN BigInt(i.m, i.z - scale_diff)
                              ELSE BigInt(TruncDiv(i.m, scale_diff - i.z), 0),
                  scale |-> new_scale]
        ELSE d

RECURSIVE BigInt_normal(_)
\* the same integer with no trailing zero left in m
BigInt_normal(i) ==
    IF i.m # 0 /\ i.m % 10 = 0
    THEN BigInt_normal([m |-> TruncDiv(i.m, 1), z |-> i.z + 1])
    ELSE i

\* Int::try_from(BigInt) for TInt = i32 or i64: None when the integer is out of
\* TInt's range
BigInt_try_into(TInt, i) ==
    LET in_range ==
            CASE TInt = "i32" ->
                    i.z = 0 \/ (i.z <= 9 /\ Abs(i.m) <= I32_MAX \div 10^(i.z))
              [] TInt = "i64" ->
                    i.z < 10 \/ (i.z <= 18 /\
                                 Abs(i.m) <= I64_MAX_DIV_1E10 \div 10^(i.z - 10))
    IN  IF in_range THEN Some(BigInt_normal(i)) ELSE None

\* a convert_decimal_to_int that stores i32::MAX for an integer out of the
\* type's range
convert_decimal_to_int_saturating(TInt, d, scale, precision) ==
    LET dd == BigDecimal_with_scale(BigDecimal_with_prec(d, precision), scale)
        int == dd.int_val
        r == BigInt_try_into(TInt, int)
    IN  IF r.some THEN r ELSE Some(BigInt(I32_MAX, 0))

\* convert_decimal_to_int::<Int> (TInt names the type Int); its two debug
\* assertions hold of every call
\* (resolve_numeric calls it with precision <= 18, with_scale returns the
\* scale it was given)
convert_decimal_to_int(TInt, d, scale, precision) ==
    LET dd == BigDecimal_with_scale(BigDecimal_with_prec(d, precision), scale)
        int == dd.int_val
    IN  BigInt_try_into(TInt, int)

\* the closure new_decimal_int_appender hands to PreprocessAppender::new, with
\* the scale and precision it captured
decimal_int_closure(TInt, scale, precision, value) ==
    IF value.n.some
    THEN convert_decimal_to_int(TInt, value.n.v, scale, precision)
    ELSE None

\* new_decimal_int_appender::<TInt, TPq>
new_decimal_int_appender(TInt, a_max_dl, a_max_rl, precision, scale) ==
    LET inner == UnwrapOptionAppender_new(
                     GenericColumnAppender_new(a_max_dl, a_max_rl,
                         IF TInt = "i32" THEN "i32->i32" ELSE "i64->i64"))
    IN  [kind |-> "Preprocess", appender |-> inner, f |-> "convert_decimal_to_int",
         int |-> TInt, scale |-> scale, precision |-> precision]

----------------------------------------------------------------------------
(* The calls of one write_row.  st is the state threaded through the calls:    *)
(*   leaf  the leaves' states           ret  the value the last call returned  *)
(*   log   the calls made so far        ok   FALSE once a call has panicked    *)
(* An entry of log: the call's caller (parent, an index of log, 0 for the      *)
(* call write_row makes), the appender called (node), the method (op), its     *)
(* argument (level for write_null; arg: none / some for copy_value_opt, empty  *)
(* / nonempty for an array's copy_value; elems: for an array's copy_value,     *)
(* which of the items of the array are present), the path it was given (ri)    *)
(* and, for a leaf, what the call pushed on dls, rls and the value buffer.     *)

NewEvent(parent, id, op, arg, level, ri, elems) ==
    [parent |-> parent, node |-> id, op |-> op, arg |-> arg, level |-> level,
     ri |-> ri, elems |-> elems, dl |-> <<>>, rl |-> <<>>, val |-> <<>>]

\* st with the entry of a call appended to its log
Enter(st, parent, id, op, arg, level, ri, elems) ==
    [st EXCEPT !.log = Append(@, NewEvent(parent, id, op, arg, level, ri, elems))]

Suffix(new, old) == SubSeq(new, Len(old) + 1, Len(new))

\* the state after the leaf at id went from s0 to r.s in the call log[me]
LeafDone(st, id, me, s0, r) ==
    [st EXCEPT !.leaf[id] = r.s, !.ret = r.ret, !.ok = r.ok,
               !.log[me].dl = Suffix(r.s.dls, s0.dls),
               !.log[me].rl = Suffix(r.s.rls, s0.rls),
               !.log[me].val = Suffix(r.s.column, s0.column)]

Panicked(st) == [st EXCEPT !.ok = FALSE]

RECURSIVE Call(_, _, _, _, _, _, _)

\* ColumnAppender::copy_value, ColumnAppenderBase::write_null and
\* ColumnAppender::copy_value_opt of the appender a, called by the call log[parent]
copy_value(a, id, repetition_index, value, st, parent) ==
    Call("copy_value", a, id, repetition_index, value, st, parent)

write_null(a, id, repetition_index, level, st, parent) ==
    Call("write_null", a, id, repetition_index, level, st, parent)

copy_value_opt(a, id, repetition_index, value, st, parent) ==
    Call("copy_value_opt", a, id, repetition_index, value, st, parent)

\* copy_value_opt writing a NULL at max_dl instead of max_dl - 1
ColumnAppender_copy_value_opt_at_max_dl(a, id, repetition_index, value, st, me) ==
    IF value.some
    THEN copy_value(a, id, repetition_index, value.v, st, me)
    ELSE IF max_dl(a) = 0
         THEN Panicked(st)
         ELSE write_null(a, id, repetition_index, max_dl(a), st, me)

\* ColumnAppender::copy_value_opt, the trait's default method
ColumnAppender_copy_value_opt(a, id, repetition_index, value, st, me) ==
    IF value.some
    THEN copy_value(a, id, repetition_index, value.v, st, me)
    ELSE IF max_dl(a) = 0
         THEN Panicked(st)
         ELSE write_null(a, id, repetition_index, max_dl(a) - 1, st, me)

\* BasicPgRowColumnAppender::write_null
BasicPgRowColumnAppender_write_null(a, id, repetition_index, level, st, me) ==
    IF debug_assertions /\ LevelIndexList_level(repetition_index) # max_rl(a.appender)
    THEN Panicked(st)
    ELSE write_null(a.appender, Append(id, 1), repetition_index, level, st, me)

\* BasicPgRowColumnAppender::copy_value
BasicPgRowColumnAppender_copy_value(a, id, repetition_index, reader, st, me) ==
    IF debug_assertions /\ LevelIndexList_level(repetition_index) # max_rl(a.appender)
    THEN Panicked(st)
    ELSE LET v == ab_get(a.row, reader, a.column_i)
         IN  IF ~v.ok
             THEN Panicked(st)
             ELSE copy_value_opt(a.appender, Append(id, 1), repetition_index, v.val, st, me)

\* a closure of create_array_appender without the flag warned: it warns of every
\* array with dimensions
closure_eprintln_every_time(a, id, value, st) ==
    CASE a.f = "data" /\ a.warn_on_multidim /\ value.dims.some ->
            [st EXCEPT !.warned = @ \cup {id},
                       !.stderr = Append(@, [warning |-> "multidim", at |-> id])]
      [] a.f = "convert_decimal_to_int" /\ value.n.some
            /\ ~convert_decimal_to_int(a.int, value.n.v, a.scale, a.precision).some ->
            [st EXCEPT !.stderr = Append(@, [warning |-> "decimal", at |-> id])]
      [] OTHER -> st

\* what the closure of the PreprocessAppender a at path id writes to stderr when
\* it is called with value: the closure of create_array_appender warns of the
\* first array with dimensions and sets its flag warned, convert_decimal_to_int
\* reports the integer that try_into refused
closure_eprintln(a, id, value, st) ==
    CASE a.f = "data" /\ a.warn_on_multidim /\ value.dims.some /\ id \notin st.warned ->
            [st EXCEPT !.warned = @ \cup {id},
                       !.stderr = Append(@, [warning |-> "multidim", at |-> id])]
      [] a.f = "convert_decimal_to_int" /\ value.n.some
            /\ ~convert_decimal_to_int(a.int, value.n.v, a.scale, a.precision).some ->
            [st EXCEPT !.stderr = Append(@, [warning |-> "decimal", at |-> id])]
      [] OTHER -> st

\* PreprocessAppender::write_null
PreprocessAppender_write_null(a, id, repetition_index, level, st, me) ==
    write_null(a.appender, Append(id, 1), repetition_index, level, st, me)

\* PreprocessAppender::copy_value
PreprocessAppender_copy_value(a, id, repetition_index, value, st, me) ==
    copy_value(a.appender, Append(id, 1), repetition_index,
               IF a.f = "convert_decimal_to_int"
               THEN decimal_int_closure(a.int, a.scale, a.precision, value)
               ELSE Project(a.f, value),
               closure_eprintln(a, id, value, st), me)

\* UnwrapOptionAppender::write_null
UnwrapOptionAppender_write_null(a, id, repetition_index, level, st, me) ==
    write_null(a.inner, Append(id, 1), repetition_index, level, st, me)

\* UnwrapOptionAppender::copy_value: the value of a Some is copied, a None is
\* written as a NULL
UnwrapOptionAppender_copy_value(a, id, repetition_index, value, st, me) ==
    copy_value_opt(a.inner, Append(id, 1), repetition_index, value, st, me)

\* RcWrapperAppender::write_null and Box<dyn ColumnAppender>::write_null
Wrapper_write_null(a, id, repetition_index, level, st, me) ==
    write_null(a.inner, Append(id, 1), repetition_index, level, st, me)

\* RcWrapperAppender::copy_value and Box<dyn ColumnAppender>::copy_value
Wrapper_copy_value(a, id, repetition_index, value, st, me) ==
    copy_value(a.inner, Append(id, 1), repetition_index, value, st, me)

RECURSIVE DynamicMergedAppender_write_null_loop(_, _, _, _, _, _, _, _)
\* the loop of DynamicMergedAppender::write_null from column i on
DynamicMergedAppender_write_null_loop(a, id, repetition_index, level, st, me, i, total) ==
    IF i > Len(a.columns)
    THEN [st EXCEPT !.ret = total]
    ELSE LET st1 == write_null(a.columns[i], Append(id, i), repetition_index,
                               level, st, me)
         IN  IF st1.ok
             THEN DynamicMergedAppender_write_null_loop(a, id, repetition_index, level,
                                                        st1, me, i + 1, total + st1.ret)
             ELSE st1

\* DynamicMergedAppender::write_null that leaves out its first column
DynamicMergedAppender_write_null_skip_first(a, id, repetition_index, level, st, me) ==
    DynamicMergedAppender_write_null_loop(a, id, repetition_index, level, st, me, 2, 0)

\* DynamicMergedAppender::write_null
DynamicMergedAppender_write_null(a, id, repetition_index, level, st, me) ==
    DynamicMergedAppender_write_null_loop(a, id, repetition_index, level, st, me, 1, 0)

RECURSIVE DynamicMergedAppender_copy_value_loop(_, _, _, _, _, _, _, _)
\* the loop of DynamicMergedAppender::copy_value from column i on
DynamicMergedAppender_copy_value_loop(a, id, repetition_index, reader, st, me, i, total) ==
    IF i > Len(a.columns)
    THEN [st EXCEPT !.ret = total]
    ELSE LET st1 == copy_value(a.columns[i], Append(id, i), repetition_index,
                               reader, st, me)
         IN  IF st1.ok
             THEN DynamicMergedAppender_copy_value_loop(a, id, repetition_index, reader,
                                                        st1, me, i + 1, total + st1.ret)
             ELSE st1

\* DynamicMergedAppender::copy_value that leaves out its first column
DynamicMergedAppender_copy_value_skip_first(a, id, repetition_index, reader, st, me) ==
    DynamicMergedAppender_copy_value_loop(a, id, repetition_index, reader, st, me, 2, 0)

\* DynamicMergedAppender::copy_value
DynamicMergedAppender_copy_value(a, id, repetition_index, reader, st, me) ==
    DynamicMergedAppender_copy_value_loop(a, id, repetition_index, reader, st, me, 1, 0)

\* StaticMergedAppenderImpl::write_null handing its own appender the level below
StaticMergedAppenderImpl_write_null_deeper(a, id, repetition_index, level, st, me) ==
    LET x == write_null(a.next, Append(id, 1), repetition_index, level, st, me)
        y == write_null(a.appender, Append(id, 2), repetition_index, level + 1, x, me)
    IN  IF x.ok
        THEN (IF y.ok THEN [y EXCEPT !.ret = x.ret + y.ret] ELSE y)
        ELSE x

\* StaticMergedAppenderImpl::write_null
StaticMergedAppenderImpl_write_null(a, id, repetition_index, level, st, me) ==
    LET x == write_null(a.next, Append(id, 1), repetition_index, level, st, me)
        y == write_null(a.appender, Append(id, 2), repetition_index, level, x, me)
    IN  IF x.ok
        THEN (IF y.ok THEN [y EXCEPT !.ret = x.ret + y.ret] ELSE y)
        ELSE x

\* StaticMergedAppenderImpl::copy_value
StaticMergedAppenderImpl_copy_value(a, id, repetition_index, reader, st, me) ==
    LET x == copy_value(a.next, Append(id, 1), repetition_index, reader, st, me)
        y == copy_value(a.appender, Append(id, 2), repetition_index, reader, x, me)
    IN  IF x.ok
        THEN (IF y.ok THEN [y EXCEPT !.ret = x.ret + y.ret] ELSE y)
        ELSE x

\* RangeColumnAppender::write_null
RangeColumnAppender_write_null(a, id, repetition_index, level, st, me) ==
    LET c1 == write_null(a.lower_col, Append(id, 1), repetition_index, level, st, me)
        c2 == write_null(a.upper_col, Append(id, 2), repetition_index, level, c1, me)
        c3 == write_null(a.is_empty_col, Append(id, 3), repetition_index, level, c2, me)
        c4 == write_null(a.lower_incl_col, Append(id, 4), repetition_index, level, c3, me)
        c5 == write_null(a.upper_incl_col, Append(id, 5), repetition_index, level, c4, me)
    IN  IF c5.ok THEN [c5 EXCEPT !.ret = c1.ret + c2.ret + c3.ret + c4.ret + c5.ret]
        ELSE c5

\* RangeColumnAppender::copy_value
RangeColumnAppender_copy_value(a, id, repetition_index, value, st, me) ==
    LET c1 == copy_value_opt(a.lower_col, Append(id, 1), repetition_index,
                             ab_get("PgRawRange", value, 0).val, st, me)
        c2 == copy_value_opt(a.upper_col, Append(id, 2), repetition_index,
                             ab_get("PgRawRange", value, 1).val, c1, me)
        c3 == copy_value(a.is_empty_col, Append(id, 3), repetition_index,
                         value.is_empty, c2, me)
        c4 == copy_value(a.lower_incl_col, Append(id, 4), repetition_index,
                         value.lower_inclusive, c3, me)
        c5 == copy_value(a.upper_incl_col, Append(id, 5), repetition_index,
                         value.lower_inclusive, c4, me)
    IN  IF c5.ok THEN [c5 EXCEPT !.ret = c1.ret + c2.ret + c3.ret + c4.ret + c5.ret]
        ELSE c5

\* StaticMergedAppenderNil::write_null and ::copy_value
StaticMergedAppenderNil_call(st) == [st EXCEPT !.ret = 0]

\* Nullable::as_option of an array item
as_option(is_nullable, item) == IF is_nullable THEN item ELSE Some(item)

\* ArrayColumnAppender::write_null
ArrayColumnAppender_write_null(a, id, repetition_index, level, st, me) ==
    IF ~(level <= a.dl)
    THEN Panicked(st)
    ELSE LET nested_ri == LevelIndexList_new_child(repetition_index)
         IN  write_null(a.inner, Append(id, 1), nested_ri, level, st, me)

RECURSIVE ArrayColumnAppender_copy_value_loop(_, _, _, _, _, _, _, _)
\* the for loop of ArrayColumnAppender::copy_value from item k on; the result is
\* the state, nested_ri and bytes_written after the loop
ArrayColumnAppender_copy_value_loop(a, id, array, k, nested_ri, st, me, bytes_written) ==
    IF k > Len(array)
    THEN [st |-> st, nested_ri |-> nested_ri, bytes_written |-> bytes_written]
    ELSE LET value == as_option(a.is_nullable, array[k])
             st1 == IF a.is_nullable /\ a.allow_element_null
                    THEN copy_value_opt(a.inner, Append(id, 1), nested_ri, value, st, me)
                    ELSE copy_value(a.inner, Append(id, 1), nested_ri, value.v, st, me)
         IN  IF (a.is_nullable /\ a.allow_element_null) \/ value.some
             THEN IF st1.ok
                  THEN ArrayColumnAppender_copy_value_loop(a, id, array, k + 1,
                           LevelIndexList_inc(nested_ri), st1, me, bytes_written + st1.ret)
                  ELSE [st |-> st1, nested_ri |-> nested_ri,
                        bytes_written |-> bytes_written]
             ELSE ArrayColumnAppender_copy_value_loop(a, id, array, k + 1,
                      nested_ri, st, me, bytes_written)

\* an empty array written one level up, as a NULL array is
ArrayColumnAppender_empty_as_null(a, id, nested_ri, st, me) ==
    write_null(a.inner, Append(id, 1), nested_ri, a.dl - 1, st, me)

\* the write the end of ArrayColumnAppender::copy_value makes for an array that
\* gave no element: a null at the list's own level
ArrayColumnAppender_empty(a, id, nested_ri, st, me) ==
    write_null(a.inner, Append(id, 1), nested_ri, a.dl, st, me)

\* ArrayColumnAppender::copy_value
ArrayColumnAppender_copy_value(a, id, repetition_index, array, st, me) ==
    LET r == ArrayColumnAppender_copy_value_loop(a, id, array, 1,
                 LevelIndexList_new_child(repetition_index), st, me, 0)
    IN  IF r.st.ok
        THEN IF r.nested_ri[Len(r.nested_ri)] = 0
             THEN LET st1 == ArrayColumnAppender_empty(a, id, r.nested_ri, r.st, me)
                  IN  [st1 EXCEPT !.ret = r.bytes_written + st1.ret]
             ELSE [r.st EXCEPT !.ret = r.bytes_written]
        ELSE r.st

\* ArrayColumnAppender::copy_value_opt that writes a NULL array at the list's own
\* level whatever allow_null says
ArrayColumnAppender_copy_value_opt_at_dl(a, id, repetition_index, value, st, me) ==
    IF value.some
    THEN copy_value(a, id, repetition_index, value.v, st, me)
    ELSE LET nested_ri == LevelIndexList_new_child(repetition_index)
         IN  write_null(a.inner, Append(id, 1), nested_ri, a.dl, st, me)

\* ArrayColumnAppender::copy_value_opt, which overrides the trait's default
ArrayColumnAppender_copy_value_opt(a, id, repetition_index, value, st, me) ==
    IF value.some
    THEN copy_value(a, id, repetition_index, value.v, st, me)
    ELSE LET nested_ri == LevelIndexList_new_child(repetition_index)
         IN  write_null(a.inner, Append(id, 1), nested_ri,
                        a.dl - Bool2Int(a.allow_null), st, me)

\* the state in which the method m of the appender a starts: st with the entry
\* of the call appended to its log
Entered(m, a, id, repetition_index, x, st, parent) ==
    Enter(st, parent, id, m,
          CASE m = "copy_value_opt" -> (IF x.some THEN "some" ELSE "none")
            [] m = "copy_value" /\ a.kind = "Array" ->
                  (IF Len(x) = 0 THEN "empty" ELSE "nonempty")
            [] OTHER -> "-",
          IF m = "write_null" THEN x ELSE 0,
          repetition_index,
          IF m = "copy_value" /\ a.kind = "Array"
          THEN [k \in 1..Len(x) |-> as_option(a.is_nullable, x[k]).some]
          ELSE <<>>)

\* the call of the method m of the appender a with the argument x (the value of
\* copy_value and copy_value_opt, the level of write_null): the entry of the log,
\* entry number Len(st.log) + 1, then the implementation of a's type; no call is
\* made once a call has panicked
Call(m, a, id, repetition_index, x, st, parent) ==
    CASE ~st.ok -> st
      [] m = "copy_value_opt" /\ a.kind = "Array" ->
            ArrayColumnAppender_copy_value_opt(a, id, repetition_index, x,
                Entered(m, a, id, repetition_index, x, st, parent), Len(st.log) + 1)
      [] m = "copy_value_opt" ->
            ColumnAppender_copy_value_opt(a, id, repetition_index, x,
                Entered(m, a, id, repetition_index, x, st, parent), Len(st.log) + 1)
      [] m = "copy_value" /\ a.kind = "Generic" ->
            LeafDone(Entered(m, a, id, repetition_index, x, st, parent),
                     id, Len(st.log) + 1, st.leaf[id],
                     GenericColumnAppender_copy_value(a, st.leaf[id], repetition_index,
                                                      x, debug_assertions))
      [] m = "copy_value" /\ a.kind = "PgRow" ->
            BasicPgRowColumnAppender_copy_value(a, id, repetition_index, x,
                Entered(m, a, id, repetition_index, x, st, parent), Len(st.log) + 1)
      [] m = "copy_value" /\ a.kind = "Preprocess" ->
            PreprocessAppender_copy_value(a, id, repetition_index, x,
                Entered(m, a, id, repetition_index, x, st, parent), Len(st.log) + 1)
      [] m = "copy_value" /\ a.kind \in {"Rc", "Box"} ->
            Wrapper_copy_value(a, id, repetition_index, x,
                Entered(m, a, id, repetition_index, x, st, parent), Len(st.log) + 1)
      [] m = "copy_value" /\ a.kind = "UnwrapOption" ->
            UnwrapOptionAppender_copy_value(a, id, repetition_index, x,
                Entered(m, a, id, repetition_index, x, st, parent), Len(st.log) + 1)
      [] m = "copy_value" /\ a.kind = "Array" ->
            ArrayColumnAppender_copy_value(a, id, repetition_index, x,
                Entered(m, a, id, repetition_index, x, st, parent), Len(st.log) + 1)
      [] m = "copy_value" /\ a.kind = "DynamicMerged" ->
            DynamicMergedAppender_copy_value(a, id, repetition_index, x,
                Entered(m, a, id, repetition_index, x, st, parent), Len(st.log) + 1)
      [] m = "copy_value" /\ a.kind = "StaticImpl" ->
            StaticMergedAppenderImpl_copy_value(a, id, repetition_index, x,
                Entered(m, a, id, repetition_index, x, st, parent), Len(st.log) + 1)
      [] m = "copy_value" /\ a.kind = "Range" ->
            RangeColumnAppender_copy_value(a, id, repetition_index, x,
                Entered(m, a, id, repetition_index, x, st, parent), Len(st.log) + 1)
      [] m = "write_null" /\ a.kind = "Range" ->
            RangeColumnAppender_write_null(a, id, repetition_index, x,
                Entered(m, a, id, repetition_index, x, st, parent), Len(st.log) + 1)
      [] m = "write_null" /\ a.kind = "Generic" ->
            LeafDone(Entered(m, a, id, repetition_index, x, st, parent),
                     id, Len(st.log) + 1, st.leaf[id],
                     GenericColumnAppender_write_null(a, st.leaf[id], repetition_index,
                                                      x, debug_assertions))
      [] m = "write_null" /\ a.kind = "PgRow" ->
            BasicPgRowColumnAppender_write_null(a, id, repetition_index, x,
                Entered(m, a, id, repetition_index, x, st, parent), Len(st.log) + 1)
      [] m = "write_null" /\ a.kind = "Preprocess" ->
            PreprocessAppender_write_null(a, id, repetition_index, x,
                Entered(m, a, id, repetition_index, x, st, parent), Len(st.log) + 1)
      [] m = "write_null" /\ a.kind \in {"Rc", "Box"} ->
            Wrapper_write_null(a, id, repetition_index, x,
                Entered(m, a, id, repetition_index, x, st, parent), Len(st.log) + 1)
      [] m = "write_null" /\ a.kind = "UnwrapOption" ->
            UnwrapOptionAppender_write_null(a, id, repetition_index, x,
                Entered(m, a, id, repetition_index, x, st, parent), Len(st.log) + 1)
      [] m = "write_null" /\ a.kind = "Array" ->
            ArrayColumnAppender_write_null(a, id, repetition_index, x,
                Entered(m, a, id, repetition_index, x, st, parent), Len(st.log) + 1)
      [] m = "write_null" /\ a.kind = "DynamicMerged" ->
            DynamicMergedAppender_write_null(a, id, repetition_index, x,
                Entered(m, a, id, repetition_index, x, st, parent), Len(st.log) + 1)
      [] m = "write_null" /\ a.kind = "StaticImpl" ->
            StaticMergedAppenderImpl_write_null(a, id, repetition_index, x,
                Entered(m, a, id, repetition_index, x, st, parent), Len(st.log) + 1)
      [] a.kind = "StaticNil" ->
            StaticMergedAppenderNil_call(
                Entered(m, a, id, repetition_index, x, st, parent))

----------------------------------------------------------------------------
(* postgres_cloner.rs: the planner.  A PostgreSQL type is a record             *)
(*   [kind |-> "Simple", name], [kind |-> "Array" / "Domain" / "Range", elem], *)
(*   [kind |-> "Composite", fields |-> sequence of [name, type]].             *)
(* Only the appender of a ResolvedColumn is built here.                        *)

\* ColumnInfo::root
ColumnInfo_root(col_i, name) ==
    [names |-> <<name>>, col_i |-> col_i, is_array |-> FALSE,
     definition_level |-> 0, repetition_level |-> 0]

\* ColumnInfo::nest
ColumnInfo_nest(self, name, col_i) ==
    [names |-> Append(self.names, name), col_i |-> col_i, is_array |-> FALSE,
     definition_level |-> self.definition_level + 1,
     repetition_level |-> self.repetition_level]

\* ColumnInfo::as_array; its assertion on self.is_array is made by the caller
ColumnInfo_as_array(self) ==
    [names |-> self.names, col_i |-> self.col_i, is_array |-> TRUE,
     definition_level |-> self.definition_level,
     repetition_level |-> self.repetition_level + 1]

\* wrap_pg_row_reader
wrap_pg_row_reader(c, a, row) == BasicPgRowColumnAppender_new(c.col_i, a, row)

\* create_primitive_appender
create_primitive_appender(c, conversion, row) ==
    wrap_pg_row_reader(c,
        GenericColumnAppender_new(c.definition_level, c.repetition_level, conversion), row)

\* resolve_primitive_conv (and resolve_primitive, which calls it with my_from)
resolve_primitive_conv(c, conversion, row) ==
    LET c1 == [c EXCEPT !.definition_level = @ + 1]
    IN  Box_new(create_primitive_appender(c1, conversion, row))

\* resolve_vector_conv
resolve_vector_conv(c, conversion, row) ==
    LET c1 == [c EXCEPT !.definition_level = @ + 1]
        inner_appender == GenericColumnAppender_new(c1.definition_level + 1,
                              c1.repetition_level + 1, conversion)
        array_appender == ArrayColumnAppender_new(inner_appender, TRUE, FALSE,
                              c1.definition_level, c1.repetition_level, FALSE)
    IN  Box_new(wrap_pg_row_reader(c1, array_appender, row))

\* resolve_numeric, for the Decimal handling with INT32 or INT64 storage
resolve_numeric(s, c, row) ==
    CASE s.numeric_handling = "Decimal" ->
            LET scale == s.decimal_scale
                precision == s.decimal_precision
                pq_type == IF precision <= 9 THEN "INT32"
                           ELSE IF precision <= 18 THEN "INT64" ELSE "BYTE_ARRAY"
            IN  CASE pq_type = "INT32" ->
                        Box_new(wrap_pg_row_reader(c,
                            new_decimal_int_appender("i32", c.definition_level + 1,
                                c.repetition_level, precision, scale), row))
                  [] pq_type = "INT64" ->
                        Box_new(wrap_pg_row_reader(c,
                            new_decimal_int_appender("i64", c.definition_level + 1,
                                c.repetition_level, precision, scale), row))

\* the mapping the int enum mode builds: mapping.insert(v, i + 1) for the i-th
\* (0-based) label v of the enum type, a later insert replacing an earlier one
enum_mapping(enum_data) ==
    [v \in { enum_data[i] : i \in 1..Len(enum_data) } |->
        CHOOSE n \in 1..Len(enum_data) :
            /\ enum_data[n] = v
            /\ \A m \in 1..Len(enum_data) : enum_data[m] = v => m <= n]

\* the Err a mapping function returns for the column c
Unsupported(c) == [kind |-> "Err", column |-> c.names]

\* map_simple_type, for the type names of this model; any other name is an
\* unsupported primitive type
map_simple_type(t, c, s, row) ==
    CASE t.name = "bool" -> resolve_primitive_conv(c, "bool->bool", row)
      [] t.name = "numeric" -> resolve_numeric(s, c, row)
      [] t.name = "int4" -> resolve_primitive_conv(c, "i32->i32", row)
      [] t.name = "text" -> resolve_primitive_conv(c, "String->ByteArray", row)
      [] t.name = "vector" -> resolve_vector_conv(c, "f32->f32", row)
      [] t.name = "macaddr" /\ s.macaddr_handling = "Int64" ->
            resolve_primitive_conv(c, "MacAddress->i64", row)
      [] t.name = "interval" /\ s.interval_handling = "Interval" ->
            resolve_primitive_conv(c, "PgInterval->FixedLenByteArray", row)
      [] t.name = "interval" /\ s.interval_handling = "Struct" ->
            Box_new(wrap_pg_row_reader(c,
                add_appender_map(
                  add_appender_map(
                    add_appender_map(
                      new_static_merged_appender(c.definition_level + 1,
                                                 c.repetition_level),
                      GenericColumnAppender_new(c.definition_level + 2,
                          c.repetition_level, "i32->i32"),
                      "months"),
                    GenericColumnAppender_new(c.definition_level + 2,
                        c.repetition_level, "i32->i32"),
                    "days"),
                  GenericColumnAppender_new(c.definition_level + 2,
                      c.repetition_level, "i64->i64"),
                  "microseconds"), row))
      [] t.name = "sparsevec" ->
            LET inner_appender ==
                    add_appender(
                      add_appender(
                        new_static_merged_appender(c.definition_level + 2,
                                                   c.repetition_level + 1),
                        GenericColumnAppender_new(c.definition_level + 2,
                            c.repetition_level + 1, "|v| v.0 + 1")),
                      GenericColumnAppender_new(c.definition_level + 2,
                          c.repetition_level + 1, "|v| v.1"))
                array_appender == ArrayColumnAppender_new(inner_appender, TRUE, FALSE,
                                      c.definition_level + 1, c.repetition_level, FALSE)
            IN  Box_new(wrap_pg_row_reader(c, array_appender, row))
      [] OTHER -> Unsupported(c)

\* a create_complex_appender whose struct is at the definition level of the column
\* above it
create_complex_appender_at_column_level(c, cols, row) ==
    LET main_cp == DynamicMergedAppender_new(cols, c.definition_level,
                                             c.repetition_level)
    IN  wrap_pg_row_reader(c, RcWrapperAppender_new(main_cp), row)

\* create_complex_appender
create_complex_appender(c, cols, row) ==
    LET main_cp == DynamicMergedAppender_new(cols, c.definition_level + 1,
                                             c.repetition_level)
    IN  wrap_pg_row_reader(c, RcWrapperAppender_new(main_cp), row)

\* create_array_appender; its closure captures warn_on_multidim
create_array_appender(inner, c, warn_on_multidim, row) ==
    LET outer_dl == c.definition_level + 1
        array_appender == ArrayColumnAppender_new(inner, TRUE, TRUE, outer_dl,
                                                  c.repetition_level, TRUE)
        multidim_appender == [kind |-> "Preprocess", appender |-> array_appender,
                              f |-> "data", warn_on_multidim |-> warn_on_multidim]
    IN  wrap_pg_row_reader(c, multidim_appender, row)

\* a create_array_dim_appender whose integers are one definition level too deep
\* for the list of dimensions
create_array_dim_appender_too_deep(c, row) ==
    LET int_appender == GenericColumnAppender_new(c.definition_level + 3,
                            c.repetition_level + 1, "i32->i32")
        dim_appender == PreprocessAppender_new(
                            ArrayColumnAppender_new(int_appender, FALSE, FALSE,
                                c.definition_level + 1, c.repetition_level, TRUE),
                            "dims")
    IN  wrap_pg_row_reader(c, dim_appender, row)

\* create_array_dim_appender
create_array_dim_appender(c, row) ==
    LET int_appender == GenericColumnAppender_new(c.definition_level + 2,
                            c.repetition_level + 1, "i32->i32")
        dim_appender == PreprocessAppender_new(
                            ArrayColumnAppender_new(int_appender, FALSE, FALSE,
                                c.definition_level + 1, c.repetition_level, TRUE),
                            "dims")
    IN  wrap_pg_row_reader(c, dim_appender, row)

\* create_array_lower_bound_appender
create_array_lower_bound_appender(c, row) ==
    LET int_appender == GenericColumnAppender_new(c.definition_level + 2,
                            c.repetition_level + 1, "i32->i32")
        dim_appender == PreprocessAppender_new(
                            ArrayColumnAppender_new(int_appender, FALSE, FALSE,
                                c.definition_level + 1, c.repetition_level, TRUE),
                            "lower_bound")
    IN  wrap_pg_row_reader(c, dim_appender, row)

RECURSIVE map_schema_column(_, _, _, _)
\* map_schema_column::<TRow>
map_schema_column(t, c, s, row) ==
    CASE t.kind = "Simple" -> map_simple_type(t, c, s, row)
      [] t.kind = "Enum" ->
            (CASE s.enum_handling = "Int" ->
                    LET c1 == [c EXCEPT !.definition_level = @ + 1]
                        generic == GenericColumnAppender_new(c1.definition_level,
                                       c1.repetition_level, "mapping.get")
                    IN  Box_new(wrap_pg_row_reader(c1,
                            [kind |-> "Generic", max_dl |-> generic.max_dl,
                             max_rl |-> generic.max_rl, conversion |-> generic.conversion,
                             mapping |-> enum_mapping(t.enum_data)], row))
               [] s.enum_handling \in {"Text", "PlainText"} ->
                    resolve_primitive_conv(c, "PgEnum->ByteArray", row))
      [] t.kind = "Array" ->
            LET list_column == ColumnInfo_as_array(ColumnInfo_nest(c, "list", 0))
                element_column == ColumnInfo_nest(list_column, "element", 0)
                element_appender == map_schema_column(t.elem, element_column, s, "PgAny")
                plain_schema == s.array_handling = "Plain"
                array_appender == create_array_appender(element_appender, c,
                                                        plain_schema, row)
                dim_appender == create_array_dim_appender(c, row)
                lb_appender == create_array_lower_bound_appender(c, row)
                nil == new_static_merged_appender(c.definition_level + 1,
                                                  c.repetition_level)
            IN  IF ColumnInfo_nest(c, "list", 0).is_array THEN [kind |-> "Panic"]
                ELSE IF element_appender.kind = "Err" THEN element_appender
                ELSE IF Panics(element_appender) THEN [kind |-> "Panic"]
                ELSE IF \/ max_dl(element_appender) # element_column.definition_level + 1
                   \/ max_rl(element_appender) # element_column.repetition_level
                THEN [kind |-> "Panic"]
                ELSE (CASE s.array_handling = "Plain" -> Box_new(array_appender)
                       [] s.array_handling = "Dimensions" ->
                            Box_new(add_appender(add_appender(nil, array_appender),
                                                 dim_appender))
                       [] s.array_handling = "DimensionsAndLowerBound" ->
                            Box_new(add_appender(add_appender(
                                        add_appender(nil, array_appender),
                                        dim_appender), lb_appender)))
      [] t.kind = "Domain" -> map_schema_column(t.elem, c, s, row)
      [] t.kind = "Range" ->
            LET col_lower == map_schema_column(t.elem, ColumnInfo_nest(c, "lower", 0),
                                               s, "PgRawRange")
                col_upper == map_schema_column(t.elem, ColumnInfo_nest(c, "upper", 1),
                                               s, "PgRawRange")
                range_nil == new_static_merged_appender(c.definition_level + 1,
                                                  c.repetition_level)
                a == PreprocessAppender_new(
                       add_appender_map(
                         add_appender_map(
                           add_appender_map(
                             add_appender(add_appender(range_nil, col_lower), col_upper),
                             GenericColumnAppender_new(c.definition_level + 2,
                                 c.repetition_level, "bool->bool"),
                             "lower_inclusive"),
                           GenericColumnAppender_new(c.definition_level + 2,
                               c.repetition_level, "bool->bool"),
                           "upper_inclusive"),
                         GenericColumnAppender_new(c.definition_level + 2,
                             c.repetition_level, "bool->bool"),
                         "is_empty"),
                       "UnclonableHack")
            IN  IF col_lower.kind = "Err" THEN col_lower
                ELSE IF col_upper.kind = "Err" THEN col_upper
                ELSE Box_new(wrap_pg_row_reader(c, a, row))
      [] t.kind = "Composite" ->
            LET column_appenders ==
                    [i \in 1..Len(t.fields) |->
                        map_schema_column(t.fields[i].type,
                            ColumnInfo_nest(c, t.fields[i].name, i - 1), s, "PgRawRecord")]
                errs == { i \in 1..Len(t.fields) : column_appenders[i].kind = "Err" }
            IN  IF errs # {}
                THEN column_appenders[CHOOSE i \in errs : \A j \in errs : i <= j]
                ELSE Box_new(create_complex_appender(c, column_appenders, row))
      [] OTHER -> Unsupported(c)

\* map_schema_root
map_schema_root(row, s) ==
    LET column_appenders ==
            [col_i \in 1..Len(row) |->
                map_schema_column(row[col_i].type,
                    ColumnInfo_root(col_i - 1, row[col_i].name), s, "Row")]
        errs == { i \in 1..Len(row) : column_appenders[i].kind = "Err" }
    IN  IF errs # {}
        THEN column_appenders[CHOOSE i \in errs : \A j \in errs : i <= j]
        ELSE Box_new(DynamicMergedAppender_new(column_appenders, 0, 0))

----------------------------------------------------------------------------
(* postgres_cloner.rs: the Parquet schema of a ResolvedColumn, built next to   *)
(* its appender.  A type of the schema is                                      *)
(*   [kind |-> "primitive", name, physical_type, repetition]   or              *)
(*   [kind |-> "group", name, repetition, fields].                             *)

\* ParquetType::primitive_type_builder(name, physical_type): OPTIONAL unless
\* with_repetition says otherwise
primitive_type_builder(name, physical_type) ==
    [kind |-> "primitive", name |-> name, physical_type |-> physical_type,
     repetition |-> "OPTIONAL"]

\* ParquetType::group_type_builder(name).with_repetition(..).with_fields(..)
group_type_builder(name, repetition, fields) ==
    [kind |-> "group", name |-> name, repetition |-> repetition, fields |-> fields]

with_repetition(type, repetition) == [type EXCEPT !.repetition = repetition]

\* ColumnInfo::col_name
ColumnInfo_col_name(c) == c.names[Len(c.names)]

\* TDataType::get_physical_type of the Parquet type a conversion produces
get_physical_type(conversion) ==
    CASE conversion = "bool->bool" -> "BOOLEAN"
      [] conversion = "i32->i32" -> "INT32"
      [] conversion = "i64->i64" -> "INT64"
      [] conversion = "MacAddress->i64" -> "INT64"
      [] conversion = "f32->f32" -> "FLOAT"
      [] conversion = "String->ByteArray" -> "BYTE_ARRAY"
      [] conversion = "PgInterval->FixedLenByteArray" -> "FIXED_LEN_BYTE_ARRAY"
      [] conversion = "mapping.get" -> "INT32"
      [] conversion = "PgEnum->ByteArray" -> "BYTE_ARRAY"

\* a make_list_schema whose list group is OPTIONAL
make_list_schema_optional_list(name, repetition, element_schema) ==
    group_type_builder(name, repetition,
        <<group_type_builder("list", "OPTIONAL", <<element_schema>>)>>)

\* make_list_schema
make_list_schema(name, repetition, element_schema) ==
    group_type_builder(name, repetition,
        <<group_type_builder("list", "REPEATED", <<element_schema>>)>>)

\* the type resolve_primitive_conv builds (build_primitive_pq_type)
resolve_primitive_conv_schema(c, conversion) ==
    primitive_type_builder(ColumnInfo_col_name(c), get_physical_type(conversion))

\* the type resolve_vector_conv builds
resolve_vector_conv_schema(c, conversion) ==
    make_list_schema(ColumnInfo_col_name(c), "OPTIONAL",
        with_repetition(primitive_type_builder("element", get_physical_type(conversion)),
                        "REQUIRED"))

\* the type resolve_numeric builds for the Decimal handling
resolve_numeric_schema(s, c) ==
    LET precision == s.decimal_precision
        pq_type == IF precision <= 9 THEN "INT32"
                   ELSE IF precision <= 18 THEN "INT64" ELSE "BYTE_ARRAY"
    IN  primitive_type_builder(ColumnInfo_col_name(c), pq_type)

\* the type map_simple_type returns
map_simple_type_schema(t, c, s) ==
    CASE t.name = "bool" -> resolve_primitive_conv_schema(c, "bool->bool")
      [] t.name = "numeric" -> resolve_numeric_schema(s, c)
      [] t.name = "int4" -> resolve_primitive_conv_schema(c, "i32->i32")
      [] t.name = "text" -> resolve_primitive_conv_schema(c, "String->ByteArray")
      [] t.name = "vector" -> resolve_vector_conv_schema(c, "f32->f32")
      [] t.name = "macaddr" /\ s.macaddr_handling = "Int64" ->
            resolve_primitive_conv_schema(c, "MacAddress->i64")
      [] t.name = "interval" /\ s.interval_handling = "Interval" ->
            resolve_primitive_conv_schema(c, "PgInterval->FixedLenByteArray")
      [] t.name = "interval" /\ s.interval_handling = "Struct" ->
            group_type_builder(ColumnInfo_col_name(c), "OPTIONAL",
                <<primitive_type_builder("months", "INT32"),
                  primitive_type_builder("days", "INT32"),
                  primitive_type_builder("microseconds", "INT64")>>)
      [] t.name = "sparsevec" ->
            group_type_builder(ColumnInfo_col_name(c), "OPTIONAL",
                <<group_type_builder("key_value", "REPEATED",
                    <<with_repetition(primitive_type_builder("key", "INT32"), "REQUIRED"),
                      with_repetition(primitive_type_builder("value", "FLOAT"),
                                      "REQUIRED")>>)>>)

RECURSIVE map_schema_column_schema(_, _, _)
\* the type map_schema_column returns
map_schema_column_schema(t, c, s) ==
    CASE t.kind = "Simple" -> map_simple_type_schema(t, c, s)
      [] t.kind = "Enum" ->
            (CASE s.enum_handling = "Int" ->
                    resolve_primitive_conv_schema(c, "mapping.get")
               [] s.enum_handling \in {"Text", "PlainText"} ->
                    resolve_primitive_conv_schema(c, "PgEnum->ByteArray"))
      [] t.kind = "Array" ->
            LET list_column == ColumnInfo_as_array(ColumnInfo_nest(c, "list", 0))
                element_column == ColumnInfo_nest(list_column, "element", 0)
                element_schema == map_schema_column_schema(t.elem, element_column, s)
                plain_schema == s.array_handling = "Plain"
                list_schema == IF plain_schema
                          THEN make_list_schema(ColumnInfo_col_name(c), "OPTIONAL",
                                                element_schema)
                          ELSE make_list_schema("data", "REQUIRED", element_schema)
                dim_schema == make_list_schema("dims", "REQUIRED",
                                  with_repetition(primitive_type_builder("element", "INT32"),
                                                  "REQUIRED"))
                lb_schema == make_list_schema("lower_bound", "REQUIRED",
                                  with_repetition(primitive_type_builder("element", "INT32"),
                                                  "REQUIRED"))
            IN  (CASE s.array_handling = "Plain" -> list_schema
                  [] s.array_handling = "Dimensions" ->
                        group_type_builder(ColumnInfo_col_name(c), "OPTIONAL",
                                           <<list_schema, dim_schema>>)
                  [] s.array_handling = "DimensionsAndLowerBound" ->
                        group_type_builder(ColumnInfo_col_name(c), "OPTIONAL",
                                           <<list_schema, dim_schema, lb_schema>>))
      [] t.kind = "Domain" -> map_schema_column_schema(t.elem, c, s)
      [] t.kind = "Range" ->
            LET col_lower == map_schema_column_schema(t.elem, ColumnInfo_nest(c, "lower", 0), s)
                col_upper == map_schema_column_schema(t.elem, ColumnInfo_nest(c, "upper", 1), s)
            IN  group_type_builder(ColumnInfo_col_name(c), "OPTIONAL",
                    <<col_lower, col_upper,
                      primitive_type_builder("lower_inclusive", "BOOLEAN"),
                      primitive_type_builder("upper_inclusive", "BOOLEAN"),
                      primitive_type_builder("is_empty", "BOOLEAN")>>)
      [] t.kind = "Composite" ->
            group_type_builder(ColumnInfo_col_name(c), "OPTIONAL",
                [i \in 1..Len(t.fields) |->
                    map_schema_column_schema(t.fields[i].type,
                        ColumnInfo_nest(c, t.fields[i].name, i - 1), s)])

\* the struct_type map_schema_root returns
map_schema_root_schema(row, s) ==
    group_type_builder("root", "NONE",
        [col_i \in 1..Len(row) |->
            map_schema_column_schema(row[col_i].type,
                ColumnInfo_root(col_i - 1, row[col_i].name), s)])

RECURSIVE SchemaDescriptor_leaves(_, _, _, _)
\* the columns of the SchemaDescriptor the file writer is created with: the
\* primitive types below type, depth-first with the fields of every group in
\* their order, each with its path and its maximal levels (an OPTIONAL type adds
\* a definition level, a REPEATED type a definition and a repetition level)
SchemaDescriptor_leaves(type, path, max_def_level, max_rep_level) ==
    LET dl == max_def_level + Bool2Int(type.repetition \in {"OPTIONAL", "REPEATED"})
        rl == max_rep_level + Bool2Int(type.repetition = "REPEATED")
        here == IF type.repetition = "NONE" THEN path ELSE Append(path, type.name)
        RECURSIVE fields(_)
        fields(i) == IF i > Len(type.fields) THEN <<>>
                     ELSE SchemaDescriptor_leaves(type.fields[i], here, dl, rl)
                            \o fields(i + 1)
    IN  IF type.kind = "primitive"
        THEN <<[path |-> here, physical_type |-> type.physical_type,
                max_def_level |-> dl, max_rep_level |-> rl]>>
        ELSE fields(1)

----------------------------------------------------------------------------
(* The queries exported: the PostgreSQL types of the result columns and the    *)
(* decoded values a result row can carry.                                      *)

Simple(name) == [kind |-> "Simple", name |-> name]
ArrayOf(elem) == [kind |-> "Array", elem |-> elem]
DomainOf(elem) == [kind |-> "Domain", elem |-> elem]
RangeOf(elem) == [kind |-> "Range", elem |-> elem]
EnumOf(enum_data) == [kind |-> "Enum", enum_data |-> enum_data]
Composite(fields) == [kind |-> "Composite", fields |-> fields]
Column(name, type) == [name |-> name, type |-> type]

\* the labels of the enum type mood, in the order of their declaration
Moods == <<"sad", "ok", "happy">>

\* the result columns of each query
Columns(name) ==
    CASE name = "flat" -> <<Column("a", Simple("int4")),
                            Column("b", DomainOf(Simple("bool")))>>
      [] name = "array" -> <<Column("xs", ArrayOf(Simple("int4")))>>
      [] name = "composite" ->
            <<Column("addr", Composite(<<Column("street", Simple("text")),
                                         Column("zip", Simple("int4"))>>))>>
      [] name \in {"range", "RangeColumnAppender"} ->
            <<Column("r", RangeOf(Simple("int4")))>>
      [] name = "vector" -> <<Column("id", Simple("int4")), Column("v", Simple("vector"))>>
      [] name = "nested" ->
            <<Column("e", ArrayOf(Composite(<<Column("ys", ArrayOf(Simple("int4"))),
                                              Column("n", Simple("int4"))>>)))>>
      [] name = "numeric" -> <<Column("amount", Simple("numeric"))>>
      [] name = "interval" -> <<Column("i", Simple("interval"))>>
      [] name = "macaddr" -> <<Column("m", Simple("macaddr"))>>
      [] name \in {"enum", "PgEnum"} -> <<Column("mood", EnumOf(Moods))>>
      [] name = "unsupported" -> <<Column("a", Simple("int4")),
                                   Column("x", Simple("xid8"))>>
      [] name = "unsupported nested" ->
            <<Column("e", ArrayOf(Composite(<<Column("n", Simple("int4")),
                                              Column("r", RangeOf(Simple("xid8")))>>)))>>
      [] name = "pseudo" -> <<Column("p", [kind |-> "Pseudo"])>>

Opt(S) == {None} \cup { Some(x) : x \in S }

PgInt == {42}
PgText == {<<77>>}
PgFloat == {15}

\* PgMultidimArray::from_sql of a one-dimensional (or empty) array
Array1(data) ==
    [data |-> data, dims |-> None, lower_bounds |-> [kind |-> "Const", c |-> 1]]
\* PgMultidimArray::from_sql of a 1 x n array
Array2(data) ==
    [data |-> data, dims |-> Some(<<1, Len(data)>>),
     lower_bounds |-> [kind |-> "PerDim", v |-> <<1, 1>>]]

\* a second element value, to tell the elements of an array apart
PgElem == {7}

IntArrays ==
    { Array1(d) : d \in SeqsUpTo(Opt(PgInt \cup PgElem), MaxArrayLen) }
    \cup { Array2(d) : d \in SeqsUpTo({Some(42)}, MaxArrayLen) \ {<<>>} }

\* a range on the wire: the bits of its flags byte (RANGE_EMPTY, RANGE_LB_INC,
\* RANGE_UB_INC, RANGE_LB_INF, RANGE_UB_INF) and the bounds that follow it
WireRanges ==
    { [empty |-> TRUE, lb_inc |-> li, ub_inc |-> FALSE, lb_inf |-> FALSE,
       ub_inf |-> FALSE, bounds |-> <<>>] : li \in BOOLEAN }
    \cup { [empty |-> FALSE, lb_inc |-> li, ub_inc |-> ui, lb_inf |-> linf,
            ub_inf |-> uinf,
            bounds |-> (IF linf THEN <<>> ELSE <<42>>) \o (IF uinf THEN <<>> ELSE <<42>>)] :
           li \in BOOLEAN, ui \in BOOLEAN, linf \in BOOLEAN, uinf \in BOOLEAN }

\* PgRawRange::from_sql
PgRawRange_from_sql(raw) ==
    LET lower == IF raw.empty \/ raw.lb_inf THEN None ELSE Some(raw.bounds[1])
        upper == IF raw.empty \/ raw.ub_inf THEN None
                 ELSE Some(raw.bounds[Len(raw.bounds)])
    IN  IF raw.empty
        THEN [lower |-> None, upper |-> None, lower_inclusive |-> FALSE,
              upper_inclusive |-> FALSE, is_empty |-> TRUE]
        ELSE [lower |-> lower, upper |-> upper, lower_inclusive |-> raw.lb_inc,
              upper_inclusive |-> raw.ub_inc, is_empty |-> FALSE]

\* the range values a row can carry
Ranges == { PgRawRange_from_sql(raw) : raw \in WireRanges }

\* PgRawRecord::from_sql: one entry for each of the num_cols fields on the wire
Record(fields) == [fields |-> fields]

\* the composite values (street text, zip int4) the wire can carry: num_cols is
\* the declared field count, or smaller
AddrRecords ==
    { Record(<<s, z>>) : s \in Opt(PgText), z \in Opt(PgInt) }
    \cup { Record(<<s>>) : s \in Opt(PgText) }
    \cup { Record(<< >>) }

\* the numeric values: NaN, 123.45, 999999.99, 5 * 10^12 and 5 * 10^20
PgNumerics ==
    {PgNumeric(None)}
    \cup { PgNumeric(Some(d)) :
              d \in {BigDecimal(12345, 2), BigDecimal(99999999, 2),
                     BigDecimal(5, -12), BigDecimal(5, -20)} }

\* the microseconds of an interval: 0, 04:05:06.789012, one day, 25 hours and
\* 999 microseconds, i64::MAX, and -0.000001 s, -1 s, minus one day, i64::MIN
Microseconds ==
    { I64(FALSE, l) : l \in {<<>>, <<14, 706, 789, 12>>, <<86, 400, 0, 0, 0>>,
                             <<90, 0, 0, 999>>,
                             <<9, 223, 372, 36, 854, 775, 807>>} }
    \cup { I64(TRUE, l) : l \in {<<1>>, <<1, 0, 0>>, <<86, 400, 0, 0, 0>>,
                                  <<9, 223, 372, 36, 854, 775, 808>>} }

\* PgInterval::from_sql: the three fields as they are on the wire
PgIntervals ==
    { PgInterval(us, d, 14) : us \in Microseconds, d \in {3, I32_MAX} }

\* the values of a macaddr column
\* src/rust/pg2parquet/src/pg_custom_types.rs, PgEnum::from_sql: the label and
\* its position among the labels of the type (-1 when it is not among them)
PgEnum_from_sql_case(ty, raw) ==
    [name |-> raw,
     case |-> IF \E i \in 1..Len(ty.enum_data) : ty.enum_data[i] = raw
              THEN (CHOOSE i \in 1..Len(ty.enum_data) :
                        /\ ty.enum_data[i] = raw
                        /\ \A j \in 1..Len(ty.enum_data) : ty.enum_data[j] = raw => i <= j) - 1
              ELSE -1]

\* src/cli/src/pg_custom_types.rs, PgEnum::from_sql: the label
PgEnum_from_sql(ty, raw) == [name |-> raw]

\* the labels a mood column carries on the wire: those of the type, and one
\* added to the type after the export has prepared its statement
WireMoods == {"sad", "ok", "happy", "new"}

MacAddresses ==
    {<<0, 0, 0, 0, 0, 0>>, <<0, 0, 0, 0, 0, 1>>, <<1, 2, 3, 4, 5, 6>>,
     <<128, 0, 0, 0, 0, 0>>, <<255, 255, 255, 255, 255, 255>>}

NestedElements ==
    {None, Some(Record(<<None, Some(42)>>)), Some(Record(<<Some(Array1(<<>>)), None>>)),
     Some(Record(<<Some(Array1(<<Some(42), None>>)), Some(42)>>))}

\* the values a column of the query can carry in one row
RowsOf(name) ==
    CASE name = "flat" -> { <<a, b>> : a \in Opt(PgInt), b \in Opt({TRUE}) }
      [] name = "array" -> { <<xs>> : xs \in Opt(IntArrays) }
      [] name = "composite" ->
            { <<addr>> : addr \in Opt(AddrRecords) }
      [] name \in {"range", "RangeColumnAppender"} -> { <<r>> : r \in Opt(Ranges) }
      [] name = "vector" ->
            { <<id, v>> : id \in Opt(PgInt), v \in Opt(SeqsUpTo(PgFloat, MaxArrayLen)) }
      [] name = "nested" ->
            { <<e>> : e \in Opt({ Array1(d) : d \in SeqsUpTo(NestedElements, MaxArrayLen) }) }
      [] name = "numeric" -> { <<amount>> : amount \in Opt(PgNumerics) }
      [] name = "interval" -> { <<i>> : i \in Opt(PgIntervals) }
      [] name = "macaddr" -> { <<m>> : m \in Opt(MacAddresses) }
      [] name = "enum" ->
            { <<e>> : e \in Opt({ PgEnum_from_sql(EnumOf(Moods), raw) : raw \in WireMoods }) }
      [] name = "PgEnum" ->
            { <<e>> : e \in Opt({ PgEnum_from_sql_case(EnumOf(Moods), raw) :
                                    raw \in WireMoods }) }
      [] OTHER -> {}

Rows(name) == { [cols |-> r] : r \in RowsOf(name) }

NoLimit == 1000000

\* the settings of an export; numeric_handling, decimal_scale,
\* decimal_precision, macaddr_handling, interval_handling and enum_handling have
\* the values of
\* default_settings
WriterSettings(row_limit, byte_limit, array_handling) ==
    [row_group_row_limit |-> row_limit, row_group_byte_limit |-> byte_limit,
     array_handling |-> array_handling, numeric_handling |-> "Double",
     decimal_scale |-> 18, decimal_precision |-> 38,
     macaddr_handling |-> "Text", interval_handling |-> "Interval",
     enum_handling |-> "Text"]

\* an export: a query, the settings it is run with and the build that runs it
Export(name, row_limit, byte_limit, array_handling, debug) ==
    [schema |-> name, settings |-> WriterSettings(row_limit, byte_limit, array_handling),
     debug_assertions |-> debug]

\* an export of the query "numeric" with --numeric-handling=decimal
DecimalExport(precision, scale, debug) ==
    [Export("numeric", 2, NoLimit, "Plain", debug) EXCEPT
        !.settings.numeric_handling = "Decimal",
        !.settings.decimal_scale = scale,
        !.settings.decimal_precision = precision]

\* the exports checked
Configs ==
    { Export("flat", r, NoLimit, "Plain", d) : r \in {1, 2}, d \in BOOLEAN }
    \cup { Export("flat", NoLimit, 12, "Plain", d) : d \in BOOLEAN }
    \cup { Export("array", 2, NoLimit, "Plain", d) : d \in BOOLEAN }
    \cup { Export("array", 2, NoLimit, h, TRUE) :
              h \in {"Dimensions", "DimensionsAndLowerBound"} }
    \cup { Export("array", NoLimit, 16, "Plain", TRUE) }
    \cup { Export(n, 2, NoLimit, "Plain", d) : n \in {"composite", "vector"}, d \in BOOLEAN }
    \cup { Export("range", 2, NoLimit, "Plain", TRUE) }
    \cup { Export("nested", 1, NoLimit, "Plain", TRUE) }
    \cup { DecimalExport(p, 2, d) : p \in {5, 9, 18}, d \in BOOLEAN }

----------------------------------------------------------------------------
(* parquet_writer.rs: ParquetRowWriter *)

\* the call that returns an error: none, or the call at of the column-th column
\* chunk (column 0 for a call of the row group, of the file or of the connection)
\* in the group-th flush_group (group 0 for a call outside flush_group)
NoFailure == [at |-> "none", column |-> 0, group |-> 0]

Failure(at, column, group) == [at |-> at, column |-> column, group |-> group]

\* a call made on the file writer
IoCall(op, column) == [op |-> op, column |-> column]

\* the state write_columns starts from
WriteColumnsState(leaf0, calls0, failing) ==
    [leaf |-> leaf0, chunks |-> <<>>, io |-> calls0, fail |-> failing, ok |-> TRUE]

\* a write_columns that requests no column chunk for a leaf with empty buffers
GenericColumnAppender_write_columns_unless_empty(a, id, st) ==
    LET n == Len(st.chunks) + 1
        r == GenericColumnAppender_write_column(a, st.leaf[id])
    IN  IF st.leaf[id].dls = <<>> /\ st.leaf[id].column = <<>>
        THEN st
        ELSE [leaf |-> [st.leaf EXCEPT ![id] = r.s],
              chunks |-> Append(st.chunks, [column |-> id, batch |-> r.batch]),
              io |-> st.io \o <<IoCall("next_column", n), IoCall("write_batch", n),
                                IoCall("close_column", n)>>,
              fail |-> st.fail,
              ok |-> TRUE]

\* a write_columns that returns the error of write_batch at once, leaving the
\* column chunk open
GenericColumnAppender_write_columns_early_return(a, id, st) ==
    LET n == Len(st.chunks) + 1
        r == GenericColumnAppender_write_column(a, st.leaf[id])
        error1 == st.fail = Failure("write_batch", n, st.fail.group)
        result2_err == st.fail = Failure("close_column", n, st.fail.group)
    IN  IF st.fail = Failure("next_column", n, st.fail.group)
        THEN [st EXCEPT !.io = Append(@, IoCall("next_column", n)), !.ok = FALSE]
        ELSE IF error1
        THEN [st EXCEPT !.io = @ \o <<IoCall("next_column", n), IoCall("write_batch", n)>>,
                        !.ok = FALSE]
        ELSE [leaf |-> [st.leaf EXCEPT ![id] = r.s],
              chunks |-> Append(st.chunks, [column |-> id, batch |-> r.batch]),
              io |-> st.io \o <<IoCall("next_column", n), IoCall("write_batch", n),
                                IoCall("close_column", n)>>,
              fail |-> st.fail,
              ok |-> ~result2_err]

\* GenericColumnAppender::write_columns of the leaf a at path id: next_column
\* opens the next column chunk of the row group, the callback hands the buffers
\* to write_batch (write_column, which clears them unless write_batch failed)
\* and closes the column chunk whether or not write_batch failed; an error of
\* any of the three calls is returned.  st = [leaf, chunks, io, fail, ok]
GenericColumnAppender_write_columns(a, id, st) ==
    LET n == Len(st.chunks) + 1
        r == GenericColumnAppender_write_column(a, st.leaf[id])
        error1 == st.fail = Failure("write_batch", n, st.fail.group)
        result2_err == st.fail = Failure("close_column", n, st.fail.group)
    IN  IF st.fail = Failure("next_column", n, st.fail.group)
        THEN [st EXCEPT !.io = Append(@, IoCall("next_column", n)), !.ok = FALSE]
        ELSE [leaf |-> IF error1 THEN st.leaf ELSE [st.leaf EXCEPT ![id] = r.s],
              chunks |-> IF error1 THEN st.chunks
                         ELSE Append(st.chunks, [column |-> id, batch |-> r.batch]),
              io |-> st.io \o <<IoCall("next_column", n), IoCall("write_batch", n),
                                IoCall("close_column", n)>>,
              fail |-> st.fail,
              ok |-> ~error1 /\ ~result2_err]

RECURSIVE write_columns_continuing(_, _, _)
\* a write_columns that goes on to the remaining children after a child has
\* returned an error, and returns the first error at the end
write_columns_continuing(a, id, st) ==
    IF a.kind = "Generic"
    THEN GenericColumnAppender_write_columns(a, id, st)
    ELSE LET RECURSIVE loop(_, _)
             loop(i, acc) ==
                IF i > Len(Children(a)) THEN acc
                ELSE LET r == write_columns_continuing(Children(a)[i], Append(id, i),
                                                       [acc EXCEPT !.ok = TRUE])
                     IN  loop(i + 1, [r EXCEPT !.ok = acc.ok /\ r.ok])
         IN  loop(1, st)

RECURSIVE write_columns(_, _, _)
\* ColumnAppenderBase::write_columns of the tree a at path id: every appender
\* forwards to its children in order and returns the first error
write_columns(a, id, st) ==
    IF ~st.ok THEN st
    ELSE IF a.kind = "Generic"
    THEN GenericColumnAppender_write_columns(a, id, st)
    ELSE LET RECURSIVE loop(_, _)
             loop(i, acc) ==
                IF i > Len(Children(a)) THEN acc
                ELSE loop(i + 1, write_columns(Children(a)[i], Append(id, i), acc))
         IN  loop(1, st)

CountOf(seq, x) == Cardinality({ i \in 1..Len(seq) : seq[i] = x })

\* what write_batch has received for one leaf, as counts
NoneWritten == [chunks |-> 0, values |-> 0, dls |-> 0, rls |-> 0, rl0 |-> 0, full |-> 0]

AddWritten(w, a, batch) ==
    [chunks |-> w.chunks + 1,
     values |-> w.values + Len(batch.values),
     dls |-> w.dls + (IF batch.dls.some THEN Len(batch.dls.v) ELSE 0),
     rls |-> w.rls + (IF batch.rls.some THEN Len(batch.rls.v) ELSE 0),
     rl0 |-> w.rl0 + (IF batch.rls.some THEN CountOf(batch.rls.v, 0) ELSE 0),
     full |-> w.full + (IF batch.dls.some THEN CountOf(batch.dls.v, a.max_dl) ELSE 0)]

\* a flush_group that writes no row group when nothing is buffered
flush_group_unless_empty(leaf0, stats0) ==
    LET r == write_columns(appender, <<>>, WriteColumnsState(leaf0, <<>>, NoFailure))
    IN  IF \A id \in DOMAIN leaf0 : leaf0[id].dls = <<>> /\ leaf0[id].column = <<>>
        THEN [ok |-> TRUE, leaf |-> leaf0, chunks |-> <<>>, io |-> <<>>,
              stats |-> stats0, current_group_bytes |-> 0, current_group_rows |-> 0]
        ELSE [ok |-> TRUE, leaf |-> r.leaf, chunks |-> r.chunks, io |-> r.io,
              stats |-> [stats0 EXCEPT !.groups = @ + 1],
              current_group_bytes |-> 0, current_group_rows |-> 0]

\* a flush_group that goes on when a call of the file writer returns an error
flush_group_ignoring_errors(leaf0, stats0) ==
    LET opened == <<IoCall("next_row_group", 0)>>
        r == write_columns(appender, <<>>, WriteColumnsState(leaf0, opened, NoFailure))
    IN  [ok |-> TRUE, leaf |-> r.leaf, chunks |-> r.chunks,
         io |-> Append(r.io, IoCall("close_row_group", 0)),
         stats |-> [stats0 EXCEPT !.groups = @ + 1],
         current_group_bytes |-> 0, current_group_rows |-> 0]

\* ParquetRowWriter::flush_group, given the leaves and stats it starts from: ok =
\* FALSE when it returns an error, which a failed call makes it do at once,
\* before the row group is counted and the group counters are reset
flush_group(leaf0, stats0) ==
    LET here == IF fail.group = stats0.groups + 1 THEN fail ELSE NoFailure
        opened == <<IoCall("next_row_group", 0)>>
        r == write_columns(appender, <<>>, WriteColumnsState(leaf0, opened, here))
        closed == Append(r.io, IoCall("close_row_group", 0))
    IN  IF here.at = "next_row_group"
        THEN [ok |-> FALSE, leaf |-> leaf0, chunks |-> <<>>, io |-> opened]
        ELSE IF ~r.ok
        THEN [ok |-> FALSE, leaf |-> r.leaf, chunks |-> r.chunks, io |-> r.io]
        ELSE IF here.at = "close_row_group"
        THEN [ok |-> FALSE, leaf |-> r.leaf, chunks |-> r.chunks, io |-> closed]
        ELSE [ok |-> TRUE, leaf |-> r.leaf, chunks |-> r.chunks, io |-> closed,
              stats |-> [stats0 EXCEPT !.groups = @ + 1],
              current_group_bytes |-> 0,
              current_group_rows |-> 0]

Flushed(w, chunks) ==
    [id \in DOMAIN w |->
        LET is == { i \in 1..Len(chunks) : chunks[i].column = id }
        IN  IF is = {} THEN w[id]
            ELSE AddWritten(w[id], NodeAt(appender, id), chunks[CHOOSE i \in is : TRUE].batch)]

EvalCalls(l) ==
    [id \in DOMAIN calls |->
        calls[id] + Cardinality({ i \in 1..Len(l) :
                        l[i].node = id /\ l[i].op \in {"copy_value", "write_null"} })]

\* ParquetRowWriter::new over the planner's appender
Init ==
    /\ \E cfg \in Configs :
          /\ schema = cfg.schema
          /\ columns = Columns(cfg.schema)
          /\ settings = cfg.settings
          /\ debug_assertions = cfg.debug_assertions
    /\ appender = map_schema_root(columns, settings)
    /\ leaf = [id \in LeafIds(appender) |->
                  GenericColumnAppender_state(NodeAt(appender, id))]
    /\ stats = [rows |-> 0, bytes |-> 0, groups |-> 0]
    /\ current_group_bytes = 0
    /\ current_group_rows = 0
    /\ written = [id \in LeafIds(appender) |-> NoneWritten]
    /\ log = <<>>
    /\ calls = [id \in NodeIds(appender, <<>>) |-> 0]
    /\ pc = "running"
    /\ ba = Absent
    /\ fba = Absent
    /\ rows = <<>>
    /\ writer = <<>>
    /\ stderr = <<>>
    /\ warned = {}
    /\ io = <<>>
    /\ fail = NoFailure
    /\ file = "created"
    /\ exit = <<>>

\* a test that ends the row group one row before its row limit
row_group_is_full_early(bytes, group_rows) ==
    \/ bytes >= settings.row_group_byte_limit
    \/ group_rows + 1 >= settings.row_group_row_limit

\* a test that lets the group grow one step past its limits
row_group_is_full_past(bytes, group_rows) ==
    \/ bytes > settings.row_group_byte_limit
    \/ group_rows > settings.row_group_row_limit

\* the test of write_row that ends the row group
row_group_is_full(bytes, group_rows) ==
    \/ bytes >= settings.row_group_byte_limit
    \/ group_rows >= settings.row_group_row_limit

\* the fields ParquetRowWriter::write_row leaves behind for the row, and whether
\* it returned (ok) or panicked, and whether what it returned is an error (err).
\* Row::get (ab_get of postgres::Row) panics on a value it cannot decode.
write_row_result(row) ==
    LET lvl == LevelIndexList_new_i(stats.rows)
        r == copy_value(appender, <<>>, lvl, row,
                        [leaf |-> leaf, log |-> <<>>, ret |-> 0, ok |-> TRUE,
                         stderr |-> stderr, warned |-> warned], 0)
    IN  IF ~r.ok \/ fail = Failure("decode", stats.rows + 1, 0)
        THEN [ok |-> FALSE, err |-> FALSE, log |-> r.log, leaf |-> leaf, stats |-> stats,
              current_group_bytes |-> current_group_bytes,
              current_group_rows |-> current_group_rows,
              written |-> written, calls |-> calls, rows |-> rows,
              writer |-> writer, stderr |-> r.stderr, warned |-> r.warned,
              io |-> <<>>]
        ELSE LET bytes == r.ret
                 bytes1 == current_group_bytes + bytes
                 rows1 == current_group_rows + 1
                 stats1 == [stats EXCEPT !.bytes = @ + bytes, !.rows = @ + 1]
                 f == flush_group(r.leaf, stats1)
             IN  IF row_group_is_full(bytes1, rows1)
                 THEN IF f.ok
                      THEN [ok |-> TRUE, err |-> FALSE, log |-> r.log, leaf |-> f.leaf,
                            stats |-> f.stats,
                            current_group_bytes |-> f.current_group_bytes,
                            current_group_rows |-> f.current_group_rows,
                            written |-> Flushed(written, f.chunks),
                            calls |-> EvalCalls(r.log),
                            rows |-> Append(rows, row),
                            writer |-> Append(writer, f.chunks),
                            stderr |-> r.stderr, warned |-> r.warned, io |-> f.io]
                      ELSE [ok |-> TRUE, err |-> TRUE, log |-> r.log, leaf |-> f.leaf,
                            stats |-> stats1,
                            current_group_bytes |-> bytes1,
                            current_group_rows |-> rows1,
                            written |-> Flushed(written, f.chunks),
                            calls |-> EvalCalls(r.log),
                            rows |-> Append(rows, row),
                            writer |-> writer,
                            stderr |-> r.stderr, warned |-> r.warned, io |-> f.io]
                 ELSE [ok |-> TRUE, err |-> FALSE, log |-> r.log, leaf |-> r.leaf,
                       stats |-> stats1,
                       current_group_bytes |-> bytes1,
                       current_group_rows |-> rows1,
                       written |-> written,
                       calls |-> EvalCalls(r.log),
                       rows |-> Append(rows, row),
                       writer |-> writer,
                       stderr |-> r.stderr, warned |-> r.warned, io |-> <<>>]

\* ParquetRowWriter::write_row (execute_copy's loop body): the next row of the
\* query is read and appended; an error it returns ends execute_copy
write_row(row) ==
    /\ pc = "running"
    /\ stats.rows < MaxRows
    /\ fail # Failure("row", stats.rows + 1, 0)
    /\ \E w \in {write_row_result(row)} :
          /\ log' = w.log
          /\ pc' = IF ~w.ok THEN "panicked" ELSE IF w.err THEN "failed" ELSE pc
          /\ leaf' = w.leaf
          /\ stats' = w.stats
          /\ current_group_bytes' = w.current_group_bytes
          /\ current_group_rows' = w.current_group_rows
          /\ written' = w.written
          /\ calls' = w.calls
          /\ rows' = w.rows
          /\ writer' = w.writer
          /\ stderr' = w.stderr
          /\ warned' = w.warned
          /\ io' = w.io
    /\ UNCHANGED <<schema, columns, appender, settings, debug_assertions, ba, fba, fail,
                   file, exit>>

WriteRow == \E row \in Rows(schema) : write_row(row)

\* a close that finalises the file without flushing what is buffered
close_without_flush ==
    /\ pc = "running"
    /\ pc' = "closed"
    /\ file' = "finalised"
    /\ UNCHANGED <<schema, columns, appender, leaf, stats, current_group_bytes,
                   current_group_rows, settings, written, log, calls,
                   debug_assertions, ba, fba, rows, writer, stderr, warned, io,
                   fail, exit>>

\* ParquetRowWriter::close (the last statement of execute_copy): flush_group,
\* then SerializedFileWriter::close writes the footer; an error of either is
\* returned at once
close ==
    /\ pc = "running"
    /\ fail # Failure("row", stats.rows + 1, 0)
    /\ \E f \in {flush_group(leaf, stats)} :
          /\ leaf' = f.leaf
          /\ written' = Flushed(written, f.chunks)
          /\ IF f.ok
             THEN /\ stats' = f.stats
                  /\ current_group_bytes' = f.current_group_bytes
                  /\ current_group_rows' = f.current_group_rows
                  /\ writer' = Append(writer, f.chunks)
                  /\ io' = Append(f.io, IoCall("close_file", 0))
                  /\ pc' = IF fail.at = "close_file" THEN "failed" ELSE "closed"
                  /\ file' = IF fail.at = "close_file" THEN file ELSE "finalised"
             ELSE /\ io' = f.io
                  /\ pc' = "failed"
                  /\ UNCHANGED <<stats, current_group_bytes, current_group_rows,
                                 writer, file>>
    /\ UNCHANGED <<schema, columns, appender, settings, log, calls, debug_assertions, ba, fba,
                   rows, stderr, warned, fail, exit>>

Next == WriteRow \/ close

Spec == Init /\ [][Next]_vars

----------------------------------------------------------------------------
(* postgres_cloner.rs, main.rs: the export command.  The steps of execute_copy *)
(* up to the row loop, the error of the row iterator and the exit of the      *)
(* process; write_row and close above are its row loop and its last statement. *)

\* the exit status of a process that panicked: 101 when the panic unwinds out of
\* main, 134 (SIGABRT) when the build aborts on panic
PanicExitCodes == {101, 134}

\* the exports run from the connection on
ExportConfigs ==
    { Export("flat", r, NoLimit, "Plain", TRUE) : r \in {1, 2} }
    \cup { Export("composite", 2, NoLimit, "Plain", TRUE) }
    \cup { Export(n, 2, NoLimit, "Plain", TRUE) :
              n \in {"unsupported", "unsupported nested", "pseudo"} }

\* the calls the environment can make fail, one in an export
Failures ==
    {NoFailure}
    \cup { Failure(at, 0, 0) :
              at \in {"connect", "prepare", "create", "new_writer", "query", "close_file"} }
    \cup { Failure(at, k, 0) : at \in {"row", "decode"}, k \in 1..2 }
    \cup { Failure(at, 0, g) : at \in {"next_row_group", "close_row_group"}, g \in 1..2 }
    \cup { Failure(at, k, g) : at \in {"next_column", "write_batch", "close_column"},
                               k \in 1..2, g \in 1..2 }

\* the process at the first statement of execute_copy
InitExport ==
    /\ \E cfg \in ExportConfigs :
          /\ schema = cfg.schema
          /\ columns = Columns(cfg.schema)
          /\ settings = cfg.settings
          /\ debug_assertions = cfg.debug_assertions
    /\ fail \in Failures
    /\ appender = [kind |-> "None"]
    /\ leaf = <<>>
    /\ stats = [rows |-> 0, bytes |-> 0, groups |-> 0]
    /\ current_group_bytes = 0
    /\ current_group_rows = 0
    /\ written = <<>>
    /\ log = <<>>
    /\ calls = <<>>
    /\ pc = "connect"
    /\ ba = Absent
    /\ fba = Absent
    /\ rows = <<>>
    /\ writer = <<>>
    /\ stderr = <<>>
    /\ warned = {}
    /\ io = <<>>
    /\ file = "untouched"
    /\ exit = <<>>

\* execute_copy: pg_connect(pg_args)?
pg_connect ==
    /\ pc = "connect"
    /\ pc' = IF fail.at = "connect" THEN "failed" ELSE "prepare"
    /\ UNCHANGED <<schema, columns, appender, leaf, stats, current_group_bytes,
                   current_group_rows, settings, written, log, calls,
                   debug_assertions, ba, fba, rows, writer, stderr, warned, io,
                   fail, file, exit>>

\* execute_copy: client.prepare(query)?
prepare ==
    /\ pc = "prepare"
    /\ pc' = IF fail.at = "prepare" THEN "failed" ELSE "map_schema"
    /\ UNCHANGED <<schema, columns, appender, leaf, stats, current_group_bytes,
                   current_group_rows, settings, written, log, calls,
                   debug_assertions, ba, fba, rows, writer, stderr, warned, io,
                   fail, file, exit>>

\* a planner step that creates the output file before it maps the schema
map_schema_after_create ==
    /\ pc = "map_schema"
    /\ file' = "created"
    /\ \E r \in {map_schema_root(columns, settings)} :
          IF r.kind = "Err"
          THEN /\ pc' = "failed"
               /\ UNCHANGED <<appender, leaf, written, calls>>
          ELSE /\ pc' = "new_writer"
               /\ appender' = r
               /\ leaf' = [id \in LeafIds(r) |-> GenericColumnAppender_state(NodeAt(r, id))]
               /\ written' = [id \in LeafIds(r) |-> NoneWritten]
               /\ calls' = [id \in NodeIds(r, <<>>) |-> 0]
    /\ UNCHANGED <<schema, columns, stats, current_group_bytes, current_group_rows, settings,
                   log, debug_assertions, ba, fba, rows, writer, stderr, warned, io,
                   fail, exit>>

\* execute_copy: map_schema_root(statement.columns(), schema_settings)?
map_schema ==
    /\ pc = "map_schema"
    /\ \E r \in {map_schema_root(columns, settings)} :
          IF r.kind = "Err"
          THEN /\ pc' = "failed"
               /\ UNCHANGED <<appender, leaf, written, calls>>
          ELSE /\ pc' = "create"
               /\ appender' = r
               /\ leaf' = [id \in LeafIds(r) |-> GenericColumnAppender_state(NodeAt(r, id))]
               /\ written' = [id \in LeafIds(r) |-> NoneWritten]
               /\ calls' = [id \in NodeIds(r, <<>>) |-> 0]
    /\ UNCHANGED <<schema, columns, stats, current_group_bytes, current_group_rows, settings,
                   log, debug_assertions, ba, fba, rows, writer, stderr, warned, io,
                   fail, file, exit>>

\* execute_copy: std::fs::File::create(output_file).unwrap()
File_create ==
    /\ pc = "create"
    /\ IF fail.at = "create"
       THEN pc' = "panicked" /\ UNCHANGED file
       ELSE pc' = "new_writer" /\ file' = "created"
    /\ UNCHANGED <<schema, columns, appender, leaf, stats, current_group_bytes,
                   current_group_rows, settings, written, log, calls,
                   debug_assertions, ba, fba, rows, writer, stderr, warned, io,
                   fail, exit>>

\* execute_copy: SerializedFileWriter::new(..)? and ParquetRowWriter::new(..)?,
\* which always returns Ok
SerializedFileWriter_new ==
    /\ pc = "new_writer"
    /\ pc' = IF fail.at = "new_writer" THEN "failed" ELSE "query"
    /\ UNCHANGED <<schema, columns, appender, leaf, stats, current_group_bytes,
                   current_group_rows, settings, written, log, calls,
                   debug_assertions, ba, fba, rows, writer, stderr, warned, io,
                   fail, file, exit>>

\* execute_copy: client.query_raw(&statement, &[])?
query_raw ==
    /\ pc = "query"
    /\ pc' = IF fail.at = "query" THEN "failed" ELSE "running"
    /\ UNCHANGED <<schema, columns, appender, leaf, stats, current_group_bytes,
                   current_group_rows, settings, written, log, calls,
                   debug_assertions, ba, fba, rows, writer, stderr, warned, io,
                   fail, file, exit>>

\* execute_copy's loop: let row = row.map_err(..)? when the iterator yields Err
row_err ==
    /\ pc = "running"
    /\ fail = Failure("row", stats.rows + 1, 0)
    /\ pc' = "failed"
    /\ UNCHANGED <<schema, columns, appender, leaf, stats, current_group_bytes,
                   current_group_rows, settings, written, log, calls,
                   debug_assertions, ba, fba, rows, writer, stderr, warned, io,
                   fail, file, exit>>

\* perform_export: handle_result(result), then main returns: process::exit(1) on
\* Err, the exit status 0 on Ok
handle_result ==
    /\ exit = <<>>
    /\ pc \in {"closed", "failed"}
    /\ exit' = IF pc = "failed" THEN <<1>> ELSE <<0>>
    /\ UNCHANGED <<schema, columns, appender, leaf, stats, current_group_bytes,
                   current_group_rows, settings, written, log, calls, pc,
                   debug_assertions, ba, fba, rows, writer, stderr, warned, io,
                   fail, file>>

\* main: the panic hook prints and the process ends with the status of a panic
panic_exit ==
    /\ exit = <<>>
    /\ pc = "panicked"
    /\ \E code \in PanicExitCodes : exit' = <<code>>
    /\ UNCHANGED <<schema, columns, appender, leaf, stats, current_group_bytes,
                   current_group_rows, settings, written, log, calls, pc,
                   debug_assertions, ba, fba, rows, writer, stderr, warned, io,
                   fail, file>>

NextExport ==
    \/ pg_connect
    \/ prepare
    \/ map_schema
    \/ File_create
    \/ SerializedFileWriter_new
    \/ query_raw
    \/ WriteRow
    \/ row_err
    \/ close
    \/ handle_result
    \/ panic_exit

SpecExport == InitExport /\ [][NextExport]_vars

----------------------------------------------------------------------------
(* byte_array.rs, fixed_byte_array.rs: the two byte-buffer leaves, driven on   *)
(* their own.  The model adds to their fields row / elem / n, the path and the *)
(* number of the calls made so far, and batch, what the last write_column      *)
(* handed to write_batch.  log holds the non-null values the byte-array leaf   *)
(* was given since its last write_column.                                      *)

\* ByteArrayColumnAppender::new
ByteArrayColumnAppender_new(a_max_dl, a_max_rl, conversion) ==
    [kind |-> "ByteArray", max_dl |-> a_max_dl, max_rl |-> a_max_rl,
     byte_buffer |-> <<>>, offsets |-> <<>>, dls |-> <<>>, rls |-> <<>>,
     repetition_index |-> LevelIndexState_new(a_max_rl), conversion |-> conversion,
     row |-> 0, elem |-> 0, n |-> 0, batch |-> None]

\* FixedByteArrayColumnAppender::new
FixedByteArrayColumnAppender_new(a_max_dl, a_max_rl, length, nullable) ==
    [kind |-> "FixedByteArray", max_dl |-> a_max_dl, max_rl |-> a_max_rl,
     nullable |-> nullable, length |-> length,
     byte_buffer |-> <<>>, dls |-> <<>>, rls |-> <<>>,
     repetition_index |-> LevelIndexState_new(a_max_rl),
     row |-> 0, elem |-> 0, n |-> 0, batch |-> None]

\* the closure of create_pg_raw_appender on the column's raw value: the bytes it
\* appends to the buffer and the length it returns
pg_raw_conversion(value) ==
    IF value.some
    THEN [bytes |-> value.v, ret |-> Some(Len(value.v))]
    ELSE [bytes |-> <<>>, ret |-> None]

\* ByteArrayColumnAppender::write_null and FixedByteArrayColumnAppender::write_null
\* (the same code): the new state and ok = FALSE for a panic
ByteLeaf_write_null(s, repetition_index, level, dbg) ==
    IF dbg /\ ~(level < s.max_dl)
    THEN [s |-> s, ok |-> FALSE]
    ELSE LET s1 == [s EXCEPT !.dls = Append(@, level)]
         IN  IF s.max_rl > 0
             THEN LET d == LevelIndexState_copy_and_diff(s1.repetition_index,
                                                         repetition_index, dbg)
                  IN  [s |-> [s1 EXCEPT !.repetition_index = d.indexes,
                                        !.rls = Append(@, d.result)],
                       ok |-> d.ok]
             ELSE [s |-> s1, ok |-> TRUE]

\* what append does after the conversion returned Some(len), from the first
\* statement that follows the debug assertion
ByteLeaf_push_levels(s, repetition_index, dbg) ==
    LET s1 == IF s.max_dl > 0 THEN [s EXCEPT !.dls = Append(@, s.max_dl)] ELSE s
    IN  IF s.max_rl > 0
        THEN LET d == LevelIndexState_copy_and_diff(s1.repetition_index,
                                                    repetition_index, dbg)
             IN  [s |-> [s1 EXCEPT !.repetition_index = d.indexes,
                                   !.rls = Append(@, d.result)],
                  ok |-> d.ok]
        ELSE [s |-> s1, ok |-> TRUE]

\* ByteArrayColumnAppender::append; c is what the conversion did
ByteArrayColumnAppender_append(s, repetition_index, c, dbg) ==
    LET index == Len(s.byte_buffer)
        s1 == [s EXCEPT !.byte_buffer = @ \o c.bytes]
    IN  IF c.ret.some
        THEN IF dbg /\ index + c.ret.v # Len(s1.byte_buffer)
             THEN [s |-> s1, ok |-> FALSE]
             ELSE ByteLeaf_push_levels([s1 EXCEPT !.offsets = Append(@, index)],
                                       repetition_index, dbg)
        ELSE ByteLeaf_write_null(s1, repetition_index, s.max_dl - 1, dbg)

\* FixedByteArrayColumnAppender::append; the conversion is handed the buffer as a
\* slice, which it cannot lengthen: ret is the length it returns
FixedByteArrayColumnAppender_append(s, repetition_index, ret, dbg) ==
    LET index == Len(s.byte_buffer)
    IN  IF ret.some
        THEN IF dbg /\ index + ret.v # Len(s.byte_buffer)
             THEN [s |-> s, ok |-> FALSE]
             ELSE ByteLeaf_push_levels(s, repetition_index, dbg)
        ELSE ByteLeaf_write_null(s, repetition_index, s.max_dl - 1, dbg)

\* the levels write_column hands to write_batch
ByteLeaf_levels(s) ==
    [dls |-> IF s.max_dl > 0 THEN Some(s.dls) ELSE None,
     rls |-> IF s.max_rl > 0 THEN Some(s.rls) ELSE None]

\* a write_column that takes an empty byte buffer for an empty column
ByteArrayColumnAppender_write_column_by_buffer(s) ==
    LET l == ByteLeaf_levels(s)
        end(i) == IF i < Len(s.offsets) THEN s.offsets[i + 1] ELSE Len(s.byte_buffer)
        column == [i \in 1..Len(s.offsets) |->
                      SubSeq(s.byte_buffer, s.offsets[i] + 1, end(i))]
    IN  IF Len(s.byte_buffer) = 0
        THEN [s |-> [s EXCEPT !.offsets = <<>>, !.dls = <<>>, !.rls = <<>>,
                              !.batch = Some([values |-> <<>>, dls |-> l.dls,
                                              rls |-> l.rls])],
              ok |-> TRUE]
        ELSE [s |-> [s EXCEPT !.offsets = <<>>, !.byte_buffer = <<>>,
                              !.dls = <<>>, !.rls = <<>>,
                              !.batch = Some([values |-> column, dls |-> l.dls,
                                              rls |-> l.rls])],
              ok |-> TRUE]

\* ByteArrayColumnAppender::write_column; ok = FALSE is the failed assert_eq!
ByteArrayColumnAppender_write_column(s) ==
    LET l == ByteLeaf_levels(s)
        end(i) == IF i < Len(s.offsets) THEN s.offsets[i + 1] ELSE Len(s.byte_buffer)
        column == [i \in 1..Len(s.offsets) |->
                      SubSeq(s.byte_buffer, s.offsets[i] + 1, end(i))]
    IN  IF Len(s.offsets) = 0
        THEN IF Len(s.byte_buffer) # 0
             THEN [s |-> s, ok |-> FALSE]
             ELSE [s |-> [s EXCEPT !.dls = <<>>, !.rls = <<>>,
                                   !.batch = Some([values |-> <<>>, dls |-> l.dls,
                                                   rls |-> l.rls])],
                   ok |-> TRUE]
        ELSE [s |-> [s EXCEPT !.offsets = <<>>, !.byte_buffer = <<>>,
                              !.dls = <<>>, !.rls = <<>>,
                              !.batch = Some([values |-> column, dls |-> l.dls,
                                              rls |-> l.rls])],
              ok |-> TRUE]

\* FixedByteArrayColumnAppender::write_column
FixedByteArrayColumnAppender_write_column(s) ==
    LET l == ByteLeaf_levels(s)
        column == [i \in 1..(Len(s.byte_buffer) \div s.length) |->
                      SubSeq(s.byte_buffer, (i - 1) * s.length + 1, i * s.length)]
    IN  [s |-> [s EXCEPT !.byte_buffer = <<>>, !.dls = <<>>, !.rls = <<>>,
                         !.batch = Some([values |-> column, dls |-> l.dls,
                                         rls |-> l.rls])],
         ok |-> TRUE]

\* the path of the next call on a leaf driven on its own: the next row, or the
\* next element of the same row when the leaf is under a list
NextPath(s, next_row) ==
    IF s.max_rl = 0 THEN [row |-> s.n, elem |-> 0, ri |-> <<s.n>>]
    ELSE IF next_row \/ s.n = 0
         THEN [row |-> s.row + Bool2Int(s.n > 0), elem |-> 0,
               ri |-> <<s.row + Bool2Int(s.n > 0), 0>>]
         ELSE [row |-> s.row, elem |-> s.elem + 1, ri |-> <<s.row, s.elem + 1>>]

Stepped(s, p) == [s EXCEPT !.row = p.row, !.elem = p.elem, !.n = @ + 1]

InitLeaves ==
    /\ schema = "flat"
    /\ columns = Columns("flat")
    /\ settings = WriterSettings(NoLimit, NoLimit, "Plain")
    /\ appender = map_schema_root(columns, settings)
    /\ leaf = [id \in LeafIds(appender) |->
                  GenericColumnAppender_state(NodeAt(appender, id))]
    /\ stats = [rows |-> 0, bytes |-> 0, groups |-> 0]
    /\ current_group_bytes = 0
    /\ current_group_rows = 0
    /\ written = [id \in LeafIds(appender) |-> NoneWritten]
    /\ log = <<>>
    /\ calls = [id \in NodeIds(appender, <<>>) |-> 0]
    /\ pc = "running"
    /\ debug_assertions \in BOOLEAN
    /\ \E dl \in 1..2, rl \in 0..1 :
          \/ /\ ba = ByteArrayColumnAppender_new(dl, rl, "pg_raw")
             /\ fba = Absent
          \/ /\ ba = Absent
             /\ fba = FixedByteArrayColumnAppender_new(dl, rl, 2, TRUE)
    /\ rows = <<>>
    /\ writer = <<>>
    /\ stderr = <<>>
    /\ warned = {}
    /\ io = <<>>
    /\ fail = NoFailure
    /\ file = "created"
    /\ exit = <<>>

\* the outcome r of a call on ba that was given the non-null values appended
BaDone(r, p, appended) ==
    /\ ba' = Stepped(r.s, p)
    /\ pc' = IF r.ok THEN pc ELSE "panicked"
    /\ log' = IF r.ok THEN log \o appended ELSE log
    /\ UNCHANGED <<schema, columns, appender, leaf, stats, current_group_bytes,
                   current_group_rows, settings, written, calls,
                   debug_assertions, fba, rows, writer, stderr, warned, io,
                   fail, file, exit>>

\* copy_value (append) on the byte-array leaf
BaAppend ==
    /\ pc = "running" /\ ba.kind = "ByteArray" /\ ba.n < MaxAppends
    /\ \E value \in Opt(PgText \cup {<<>>}), next_row \in BOOLEAN :
          LET p == NextPath(ba, next_row)
          IN  BaDone(ByteArrayColumnAppender_append(ba, p.ri, pg_raw_conversion(value),
                                                    debug_assertions), p,
                     IF value.some THEN <<value.v>> ELSE <<>>)

\* write_null on the byte-array leaf, at a level a parent may pass
BaWriteNull ==
    /\ pc = "running" /\ ba.kind = "ByteArray" /\ ba.n < MaxAppends
    /\ \E level \in 0..(ba.max_dl - 1), next_row \in BOOLEAN :
          LET p == NextPath(ba, next_row)
          IN  BaDone(ByteLeaf_write_null(ba, p.ri, level, debug_assertions), p, <<>>)

\* write_columns on the byte-array leaf
BaWriteColumn ==
    /\ pc = "running" /\ ba.kind = "ByteArray"
    /\ LET r == ByteArrayColumnAppender_write_column(ba)
       IN  /\ ba' = r.s
           /\ pc' = IF r.ok THEN pc ELSE "panicked"
           /\ log' = IF r.ok THEN <<>> ELSE log
    /\ UNCHANGED <<schema, columns, appender, leaf, stats, current_group_bytes,
                   current_group_rows, settings, written, calls,
                   debug_assertions, fba, rows, writer, stderr, warned, io,
                   fail, file, exit>>

\* the outcome r of a call on fba
FbaDone(r, p) ==
    /\ fba' = Stepped(r.s, p)
    /\ pc' = IF r.ok THEN pc ELSE "panicked"
    /\ UNCHANGED <<schema, columns, appender, leaf, stats, current_group_bytes,
                   current_group_rows, settings, written, log, calls,
                   debug_assertions, ba, rows, writer, stderr, warned, io,
                   fail, file, exit>>

\* copy_value (append) on the fixed-length leaf; the conversion returns None, or
\* the length it claims to have written
FbaAppend ==
    /\ pc = "running" /\ fba.kind = "FixedByteArray" /\ fba.n < MaxAppends
    /\ \E ret \in {None, Some(0), Some(fba.length)}, next_row \in BOOLEAN :
          LET p == NextPath(fba, next_row)
          IN  FbaDone(FixedByteArrayColumnAppender_append(fba, p.ri, ret,
                                                          debug_assertions), p)

\* write_null on the fixed-length leaf
FbaWriteNull ==
    /\ pc = "running" /\ fba.kind = "FixedByteArray" /\ fba.n < MaxAppends
    /\ \E level \in 0..(fba.max_dl - 1), next_row \in BOOLEAN :
          LET p == NextPath(fba, next_row)
          IN  FbaDone(ByteLeaf_write_null(fba, p.ri, level, debug_assertions), p)

\* write_columns on the fixed-length leaf
FbaWriteColumn ==
    /\ pc = "running" /\ fba.kind = "FixedByteArray"
    /\ fba' = FixedByteArrayColumnAppender_write_column(fba).s
    /\ UNCHANGED <<schema, columns, appender, leaf, stats, current_group_bytes,
                   current_group_rows, settings, written, log, calls, pc,
                   debug_assertions, ba, rows, writer, stderr, warned, io,
                   fail, file, exit>>

NextLeaves ==
    \/ BaAppend \/ BaWriteNull \/ BaWriteColumn
    \/ FbaAppend \/ FbaWriteNull \/ FbaWriteColumn

SpecLeaves == InitLeaves /\ [][NextLeaves]_vars

\* the leaves in all their types: the GenericColumnAppenders of an export, or a
\* byte-buffer leaf driven on its own
InitAll == Init \/ InitLeaves

NextAll ==
    \/ ba = Absent /\ fba = Absent /\ WriteRow
    \/ ba = Absent /\ fba = Absent /\ close
    \/ NextLeaves

SpecAll == InitAll /\ [][NextAll]_vars

----------------------------------------------------------------------------
(* range_col_appender.rs: a RangeColumnAppender of int4 bounds under the row   *)
(* reader of the first column, driven by write_row and close.                  *)

\* the appender tree: the range is optional (DL 1), its children are at DL 2
RangeColumnAppenderTree ==
    DynamicMergedAppender_new(
        <<BasicPgRowColumnAppender_new(0,
              RangeColumnAppender_new(GenericColumnAppender_new(2, 0, "i32->i32")),
              "Row")>>, 0, 0)

InitRange ==
    /\ schema = "RangeColumnAppender"
    /\ columns = Columns("RangeColumnAppender")
    /\ settings = WriterSettings(2, NoLimit, "Plain")
    /\ debug_assertions \in BOOLEAN
    /\ appender = RangeColumnAppenderTree
    /\ leaf = [id \in LeafIds(appender) |->
                  GenericColumnAppender_state(NodeAt(appender, id))]
    /\ stats = [rows |-> 0, bytes |-> 0, groups |-> 0]
    /\ current_group_bytes = 0
    /\ current_group_rows = 0
    /\ written = [id \in LeafIds(appender) |-> NoneWritten]
    /\ log = <<>>
    /\ calls = [id \in NodeIds(appender, <<>>) |-> 0]
    /\ pc = "running"
    /\ ba = Absent
    /\ fba = Absent
    /\ rows = <<>>
    /\ writer = <<>>
    /\ stderr = <<>>
    /\ warned = {}
    /\ io = <<>>
    /\ fail = NoFailure
    /\ file = "created"
    /\ exit = <<>>

SpecRange == InitRange /\ [][Next]_vars

----------------------------------------------------------------------------
(* The exports of an enum column: with --enum-handling=int and text through    *)
(* the planner, and through a leaf that converts with MyFrom<PgEnum> for i32   *)
(* the PgEnum that src/rust/pg2parquet/src/pg_custom_types.rs decodes.         *)

EnumConfigs ==
    { [Export("enum", 2, NoLimit, "Plain", d) EXCEPT !.settings.enum_handling = h] :
          d \in BOOLEAN, h \in {"Int", "Text"} }

\* resolve_primitive::<PgEnum, Int32Type, _>(name, c, None, None) for the root
\* column c
PgEnumMyFromTree ==
    Box_new(DynamicMergedAppender_new(
        <<resolve_primitive_conv(ColumnInfo_root(0, "mood"), "PgEnum->i32", "Row")>>, 0, 0))

InitEnum ==
    /\ \/ \E cfg \in EnumConfigs :
             /\ schema = cfg.schema
             /\ columns = Columns(cfg.schema)
             /\ settings = cfg.settings
             /\ debug_assertions = cfg.debug_assertions
             /\ appender = map_schema_root(columns, settings)
       \/ /\ schema = "PgEnum"
          /\ columns = Columns("PgEnum")
          /\ settings = WriterSettings(2, NoLimit, "Plain")
          /\ debug_assertions \in BOOLEAN
          /\ appender = PgEnumMyFromTree
    /\ leaf = [id \in LeafIds(appender) |->
                  GenericColumnAppender_state(NodeAt(appender, id))]
    /\ stats = [rows |-> 0, bytes |-> 0, groups |-> 0]
    /\ current_group_bytes = 0
    /\ current_group_rows = 0
    /\ written = [id \in LeafIds(appender) |-> NoneWritten]
    /\ log = <<>>
    /\ calls = [id \in NodeIds(appender, <<>>) |-> 0]
    /\ pc = "running"
    /\ ba = Absent
    /\ fba = Absent
    /\ rows = <<>>
    /\ writer = <<>>
    /\ stderr = <<>>
    /\ warned = {}
    /\ io = <<>>
    /\ fail = NoFailure
    /\ file = "created"
    /\ exit = <<>>

SpecEnum == InitEnum /\ [][Next]_vars

----------------------------------------------------------------------------
(* The exports of an interval column (--interval-handling=interval) and of a   *)
(* macaddr column (--macaddr-handling=int64).                                  *)

ConversionConfigs ==
    { Export("interval", 2, NoLimit, "Plain", d) : d \in BOOLEAN }
    \cup { [Export("macaddr", 2, NoLimit, "Plain", d) EXCEPT
               !.settings.macaddr_handling = "Int64"] : d \in BOOLEAN }

InitConversions ==
    /\ \E cfg \in ConversionConfigs :
          /\ schema = cfg.schema
          /\ columns = Columns(cfg.schema)
          /\ settings = cfg.settings
          /\ debug_assertions = cfg.debug_assertions
    /\ appender = map_schema_root(columns, settings)
    /\ leaf = [id \in LeafIds(appender) |->
                  GenericColumnAppender_state(NodeAt(appender, id))]
    /\ stats = [rows |-> 0, bytes |-> 0, groups |-> 0]
    /\ current_group_bytes = 0
    /\ current_group_rows = 0
    /\ written = [id \in LeafIds(appender) |-> NoneWritten]
    /\ log = <<>>
    /\ calls = [id \in NodeIds(appender, <<>>) |-> 0]
    /\ pc = "running"
    /\ ba = Absent
    /\ fba = Absent
    /\ rows = <<>>
    /\ writer = <<>>
    /\ stderr = <<>>
    /\ warned = {}
    /\ io = <<>>
    /\ fail = NoFailure
    /\ file = "created"
    /\ exit = <<>>

SpecConversions == InitConversions /\ [][Next]_vars

----------------------------------------------------------------------------
(* The tracker of one leaf on its own: copy_and_diff with every path of the    *)
(* leaf's level, one after the other.  log holds the last call: the indexes    *)
(* remembered before it, the path and the level returned.                      *)

\* the deepest repetition level of a leaf and the largest index of a path
MaxLevel == 2
MaxIndex == 2

\* the paths of level m: one index for each of the levels 0..m
PathsOfLevel(m) == [1..(m + 1) -> 0..MaxIndex]

InitTracker ==
    /\ schema = "LevelIndexState"
    /\ columns = <<>>
    /\ settings = WriterSettings(NoLimit, NoLimit, "Plain")
    /\ debug_assertions \in BOOLEAN
    /\ \E m \in 0..MaxLevel : appender = GenericColumnAppender_new(1, m, "i32->i32")
    /\ leaf = [id \in {<<>>} |-> GenericColumnAppender_state(appender)]
    /\ stats = [rows |-> 0, bytes |-> 0, groups |-> 0]
    /\ current_group_bytes = 0
    /\ current_group_rows = 0
    /\ written = <<>>
    /\ log = <<>>
    /\ calls = <<>>
    /\ pc = "running"
    /\ ba = Absent
    /\ fba = Absent
    /\ rows = <<>>
    /\ writer = <<>>
    /\ stderr = <<>>
    /\ warned = {}
    /\ io = <<>>
    /\ fail = NoFailure
    /\ file = "untouched"
    /\ exit = <<>>

\* self.repetition_index.copy_and_diff(repetition_index) of the leaf
copy_and_diff ==
    /\ pc = "running"
    /\ \E other \in PathsOfLevel(appender.max_rl) :
       \E d \in {LevelIndexState_copy_and_diff(leaf[<<>>].repetition_index, other,
                                               debug_assertions)} :
          /\ leaf' = [leaf EXCEPT ![<<>>].repetition_index = d.indexes]
          /\ log' = <<[indexes |-> leaf[<<>>].repetition_index, other |-> other,
                       result |-> d.result, ok |-> d.ok]>>
    /\ UNCHANGED <<schema, columns, appender, stats, current_group_bytes,
                   current_group_rows, settings, written, calls, pc,
                   debug_assertions, ba, fba, rows, writer, stderr, warned, io,
                   fail, file, exit>>

SpecTracker == InitTracker /\ [][copy_and_diff]_vars

----------------------------------------------------------------------------
(* The planner on its own: execute_copy from client.prepare to map_schema_root *)
(* for queries of one or two result columns of every kind of type, under every *)
(* array, enum and interval handling.                                          *)

\* primitive type names; point is one map_simple_type has no arm for
PlannerNames == {"bool", "int4", "text", "vector", "sparsevec", "interval", "point"}

PlannerTypes0 == { Simple(n) : n \in PlannerNames } \cup {EnumOf(Moods)}

PlannerTypes1 ==
    PlannerTypes0
    \cup { ArrayOf(t) : t \in PlannerTypes0 }
    \cup { RangeOf(t) : t \in PlannerTypes0 }
    \cup { DomainOf(ArrayOf(t)) : t \in PlannerTypes0 }
    \cup { Composite(<<Column("f", t), Column("g", Simple("int4"))>>) :
              t \in PlannerTypes0 }

PlannerTypes ==
    PlannerTypes1
    \cup { ArrayOf(t) : t \in PlannerTypes1 }
    \cup { Composite(<<Column("f", Simple("text")), Column("g", t)>>) :
              t \in PlannerTypes1 }

\* Statement::columns of the queries planned
PlannerQueries ==
    { <<Column("c", t)>> : t \in PlannerTypes }
    \cup { <<Column("id", Simple("int4")), Column("c", t)>> : t \in PlannerTypes0 }

PlannerSettings ==
    { [WriterSettings(2, NoLimit, ah) EXCEPT !.enum_handling = eh,
                                             !.interval_handling = ih] :
        ah \in {"Plain", "Dimensions", "DimensionsAndLowerBound"},
        eh \in {"Int", "Text"}, ih \in {"Interval", "Struct"} }

InitPlanner ==
    /\ schema = "planner"
    /\ columns \in PlannerQueries
    /\ settings \in PlannerSettings
    /\ debug_assertions = TRUE
    /\ fail \in {NoFailure, Failure("prepare", 0, 0)}
    /\ appender = [kind |-> "None"]
    /\ leaf = <<>>
    /\ stats = [rows |-> 0, bytes |-> 0, groups |-> 0]
    /\ current_group_bytes = 0
    /\ current_group_rows = 0
    /\ written = <<>>
    /\ log = <<>>
    /\ calls = <<>>
    /\ pc = "prepare"
    /\ ba = Absent
    /\ fba = Absent
    /\ rows = <<>>
    /\ writer = <<>>
    /\ stderr = <<>>
    /\ warned = {}
    /\ io = <<>>
    /\ file = "untouched"
    /\ exit = <<>>

NextPlanner == prepare \/ map_schema

SpecPlanner == InitPlanner /\ [][NextPlanner]_vars

----------------------------------------------------------------------------
(* What the leaves have received *)

Leaves == DOMAIN leaf
Nodes == DOMAIN calls
Node(id) == NodeAt(appender, id)

\* the copy_value and write_null calls of the last write_row on the leaf id
LeafEvents(id) ==
    { i \in 1..Len(log) : log[i].node = id /\ log[i].op \in {"copy_value", "write_null"} }

\* (value or NULL) records the leaf has received: buffered plus flushed
Records(id) ==
    IF Node(id).max_dl > 0
    THEN written[id].dls + Len(leaf[id].dls)
    ELSE written[id].values + Len(leaf[id].column)

\* the records among them that start a row
RowStarts(id) ==
    IF Node(id).max_rl > 0
    THEN written[id].rl0 + CountOf(leaf[id].rls, 0)
    ELSE Records(id)

\* the row starts the last write_row gave the leaf
RowStartsOfLastRow(id) ==
    IF Node(id).max_rl > 0
    THEN Cardinality({ i \in LeafEvents(id) : log[i].rl = <<0>> })
    ELSE Cardinality({ i \in LeafEvents(id) : Len(log[i].dl) + Len(log[i].val) > 0 })

----------------------------------------------------------------------------
(* C1: leaf balance.  After N successful write_row calls a leaf that is not    *)
(* under a list (max_rl = 0) has received exactly N records, buffered plus     *)
(* flushed; a leaf under a list (max_rl > 0) has received at least N, one or   *)
(* more for each row.                                                          *)
C1_LeafBalance ==
    \A id \in Leaves :
        /\ Node(id).max_rl = 0 => Records(id) = stats.rows
        /\ Node(id).max_rl > 0 => Records(id) >= stats.rows

\* C1 as stated: exactly N records in every leaf
C1_ExactlyNEverywhere == \A id \in Leaves : Records(id) = stats.rows

C1_Witness ==
    /\ pc = "closed"
    /\ stats.rows = MaxRows
    /\ \E id \in Leaves : Node(id).max_rl = 0 /\ written[id].chunks > 1
    /\ \E id \in Leaves : Node(id).max_rl > 0 /\ Records(id) > stats.rows

(* C2: every successful write_row gives every leaf exactly one row start (one  *)
(* DL entry when max_rl = 0, one record with RL = 0 when max_rl > 0), so after *)
(* N rows every leaf holds exactly N row starts.                               *)
C2_OneRowStartPerRow ==
    \A id \in Leaves :
        /\ RowStarts(id) = stats.rows
        /\ (stats.rows > 0 /\ pc # "panicked") => RowStartsOfLastRow(id) = 1

C2_Witness ==
    /\ pc = "running"
    /\ stats.rows = MaxRows
    /\ \E id \in Leaves : Node(id).max_rl > 0 /\ Cardinality(LeafEvents(id)) > 1
                          /\ written[id].rl0 > 0

(* C3: level bounds.  Every record a leaf receives, value or NULL marker, has  *)
(* 0 <= DL <= max_dl and 0 <= RL <= max_rl of that leaf.                       *)
C3_LevelBounds ==
    \A id \in Leaves :
        /\ \A i \in LeafEvents(id) :
              /\ \A k \in 1..Len(log[i].dl) :
                    0 <= log[i].dl[k] /\ log[i].dl[k] <= Node(id).max_dl
              /\ \A k \in 1..Len(log[i].rl) :
                    0 <= log[i].rl[k] /\ log[i].rl[k] <= Node(id).max_rl
        /\ \A k \in 1..Len(leaf[id].dls) :
              0 <= leaf[id].dls[k] /\ leaf[id].dls[k] <= Node(id).max_dl
        /\ \A k \in 1..Len(leaf[id].rls) :
              0 <= leaf[id].rls[k] /\ leaf[id].rls[k] <= Node(id).max_rl

C3_Witness ==
    \E id \in Leaves :
        /\ Node(id).max_rl = 2
        /\ \E i, j \in LeafEvents(id) :
              /\ log[i].rl = <<2>> /\ log[i].dl = <<Node(id).max_dl - 1>>
              /\ log[j].rl = <<0>> /\ log[j].dl = <<Node(id).max_dl>>

(* C4: the first record a leaf with max_rl > 0 ever receives has RL = 0.       *)
C4_FirstRecordRLZero ==
    (stats.rows = 1 /\ pc # "panicked") =>
        \A id \in Leaves :
            Node(id).max_rl > 0 =>
                /\ LeafEvents(id) # {}
                /\ LET first == CHOOSE i \in LeafEvents(id) :
                                    \A j \in LeafEvents(id) : i <= j
                   IN  log[first].rl = <<0>>

C4_Witness ==
    /\ stats.rows = 1
    /\ pc = "running"
    /\ \E id \in Leaves : Node(id).max_rl > 0 /\ Cardinality(LeafEvents(id)) > 1

(* C5: every NULL record a leaf receives has a DL strictly below the leaf's    *)
(* max_dl and adds nothing to the leaf's value buffer.                         *)
C5_NullDL ==
    \A id \in Leaves :
        \A i \in LeafEvents(id) :
            log[i].op = "write_null" =>
                /\ Len(log[i].dl) = 1
                /\ log[i].dl[1] < Node(id).max_dl
                /\ log[i].val = <<>>

C5_Witness ==
    \E id \in Leaves :
        \E i, j \in LeafEvents(id) :
            /\ log[i].op = "write_null" /\ log[i].dl = <<Node(id).max_dl - 1>>
            /\ log[j].op = "copy_value" /\ Len(log[j].val) = 1
            /\ Len(leaf[id].column) > 0

C6_GenericAndByteArray ==
    /\ \A id \in Leaves :
          Node(id).max_dl > 0 =>
              Len(leaf[id].column) = CountOf(leaf[id].dls, Node(id).max_dl)
    /\ (ba.kind = "ByteArray" /\ ba.max_dl > 0) =>
          Len(ba.offsets) = CountOf(ba.dls, ba.max_dl)

----------------------------------------------------------------------------
(* The calls of the last write_row as a tree *)

RECURSIVE CalledWithin(_, _)
\* the call log[j] was made, directly or not, by the call log[e]
CalledWithin(j, e) ==
    IF j = 0 THEN FALSE
    ELSE IF log[j].parent = e THEN TRUE
    ELSE CalledWithin(log[j].parent, e)

\* the calls log[e] made itself
CallsOf(e) == { j \in 1..Len(log) : log[j].parent = e }

\* the struct appenders of the tree
IsStruct(id) == Node(id).kind \in {"DynamicMerged", "StaticImpl"}

\* the leaves below the appender id
LeavesBelow(id) == { l \in Leaves : IsPrefix(id, l) }

\* the path ri extended with first positions down to a leaf with max_rl = rl
PathDownTo(ri, rl) == [i \in 1..(rl + 1) |-> IF i <= Len(ri) THEN ri[i] ELSE 0]

\* the RL a position dictates: the deepest level at which the path is not at a
\* first element, 0 when it is at first elements all the way
PositionRL(ri) ==
    LET repeated == { t \in 1..(Len(ri) - 1) : ri[t + 1] > 0 }
    IN  IF repeated = {} THEN 0 ELSE CHOOSE t \in repeated : \A u \in repeated : u <= t

\* the call log[e] gave every leaf below the appender id exactly one NULL marker,
\* with DL = level, for the position of log[e]
OneNullMarkerEach(e, id, level) ==
    \A l \in LeavesBelow(id) :
        LET got == { j \in LeafEvents(l) : CalledWithin(j, e) }
        IN  /\ Cardinality(got) = 1
            /\ \A j \in got :
                  /\ log[j].op = "write_null"
                  /\ log[j].dl = <<level>>
                  /\ log[j].val = <<>>
                  /\ log[j].ri = PathDownTo(log[e].ri, Node(l).max_rl)
                  /\ log[j].rl = IF Node(l).max_rl > 0
                                 THEN <<PositionRL(log[j].ri)>> ELSE <<>>

(* C7: at every row boundary, for every struct appender, the numbers of calls  *)
(* (copy_value plus write_null) its children have received so far are equal.   *)
C7_StructCallCounts ==
    \A id \in Nodes :
        IsStruct(id) =>
            \A i, j \in 1..Len(Children(Node(id))) :
                calls[Append(id, i)] = calls[Append(id, j)]

C7_Witness ==
    /\ stats.rows = MaxRows
    /\ \E id \in Nodes :
          /\ Node(id).kind = "DynamicMerged"
          /\ Len(Children(Node(id))) > 1
          /\ calls[Append(id, 1)] > stats.rows
    /\ \E e \in 1..Len(log) : IsStruct(log[e].node) /\ log[e].op = "write_null"

(* C8: every copy_value or write_null call on a struct appender gives every    *)
(* child exactly one call of the same kind (all a value, or all a NULL at the  *)
(* same level), all with the path the struct was given.                        *)
C8_AtomicBroadcast ==
    pc # "panicked" =>
        \A e \in 1..Len(log) :
            (IsStruct(log[e].node) /\ log[e].op \in {"copy_value", "write_null"}) =>
                /\ \A i \in 1..Len(Children(Node(log[e].node))) :
                      Cardinality({ j \in CallsOf(e) :
                                      log[j].node = Append(log[e].node, i) }) = 1
                /\ \A j \in CallsOf(e) :
                      /\ log[j].op = log[e].op
                      /\ log[j].level = log[e].level
                      /\ log[j].ri = log[e].ri

C8_Witness ==
    /\ pc = "running"
    /\ \E e, f \in 1..Len(log) :
          /\ IsStruct(log[e].node) /\ IsStruct(log[f].node)
          /\ Len(Children(Node(log[e].node))) > 1
          /\ log[e].op = "write_null" /\ log[e].level > 0 /\ Len(log[e].ri) > 1
          /\ log[f].op = "copy_value" /\ log[f].node = log[e].node

(* C9: when a group (struct, composite, range or list) whose own definition    *)
(* level is k is NULL at some position, every leaf beneath it receives exactly *)
(* one NULL marker for that position, with DL = k - 1 and the RL the position  *)
(* dictates.                                                                   *)
C9_NullGroup ==
    pc # "panicked" =>
        \A e \in 1..Len(log) :
            (/\ log[e].op = "copy_value_opt"
             /\ log[e].arg = "none"
             /\ Node(log[e].node).kind # "Generic") =>
                OneNullMarkerEach(e, log[e].node, max_dl(Node(log[e].node)) - 1)

C9_Witness ==
    /\ pc = "running"
    /\ \E e \in 1..Len(log) :
          /\ log[e].op = "copy_value_opt"
          /\ log[e].arg = "none"
          /\ Cardinality(LeavesBelow(log[e].node)) > 1
          /\ log[e].ri[Len(log[e].ri)] > 0
          /\ max_dl(Node(log[e].node)) > 2

\* a NULL array arrives as copy_value_opt(None) at the array appender or at the
\* preprocessing wrapper the planner puts around it
IsArrayEntry(id) ==
    \/ Node(id).kind = "Array"
    \/ Node(id).kind = "Preprocess" /\ Node(id).appender.kind = "Array"

\* the ArrayColumnAppender reached through the entry id
ArrayOfEntry(id) == IF Node(id).kind = "Array" THEN Node(id) ELSE Node(id).appender

(* C10: for every array appender the planner builds, an empty array and a NULL *)
(* array each give every element leaf exactly one record with the RL of the    *)
(* position, with DL = the list's max_dl for the empty array and the list's    *)
(* max_dl - 1 for the NULL array.                                              *)
C10_EmptyVersusNullArray ==
    pc # "panicked" =>
        \A e \in 1..Len(log) :
            /\ (/\ log[e].op = "copy_value"
                /\ Node(log[e].node).kind = "Array"
                /\ log[e].arg = "empty") =>
                   OneNullMarkerEach(e, log[e].node, max_dl(Node(log[e].node)))
            /\ (/\ log[e].op = "copy_value_opt"
                /\ log[e].arg = "none"
                /\ IsArrayEntry(log[e].node)) =>
                   OneNullMarkerEach(e, log[e].node,
                                     max_dl(ArrayOfEntry(log[e].node)) - 1)

C10_Witness ==
    /\ pc = "running"
    /\ \E e, f \in 1..Len(log) :
          /\ log[e].op = "copy_value" /\ log[e].arg = "empty"
          /\ Node(log[e].node).kind = "Array"
          /\ log[f].op = "copy_value_opt" /\ log[f].arg = "none"
          /\ IsArrayEntry(log[f].node)
          /\ ArrayOfEntry(log[f].node) = Node(log[e].node)
          /\ Len(log[e].ri) > 1 /\ Len(log[f].ri) > 1

----------------------------------------------------------------------------
(* The file: what the column writers of the row groups have received *)

\* the batch the column writer of leaf id received in row group g
Batch(g, id) ==
    writer[g][CHOOSE i \in 1..Len(writer[g]) : writer[g][i].column = id].batch

LevelsOf(levels) == IF levels.some THEN levels.v ELSE <<>>

RECURSIVE StreamUpTo(_, _)
\* the values, DLs and RLs written for leaf id in the row groups 1..g, in order
StreamUpTo(id, g) ==
    IF g = 0 THEN [values |-> <<>>, dls |-> <<>>, rls |-> <<>>]
    ELSE LET s == StreamUpTo(id, g - 1)
             b == Batch(g, id)
         IN  [values |-> s.values \o b.values,
              dls |-> s.dls \o LevelsOf(b.dls),
              rls |-> s.rls \o LevelsOf(b.rls)]

\* the stream of leaf id: what has been written, then what is still buffered
Stream(id) ==
    LET s == StreamUpTo(id, Len(writer))
    IN  [values |-> s.values \o leaf[id].column,
         dls |-> s.dls \o leaf[id].dls,
         rls |-> s.rls \o leaf[id].rls]

\* the Parquet schema path from a top-level array column down to its element:
\* the repetition of each field (map_schema_column's Array arm, make_list_schema)
ElementPath(array_handling) ==
    IF array_handling = "Plain"
    THEN <<"OPTIONAL", "REPEATED", "OPTIONAL">>
    ELSE <<"OPTIONAL", "REQUIRED", "REPEATED", "OPTIONAL">>

\* the definition level at which the k-th field of a schema path is defined
DefinedAt(path, k) == Cardinality({ i \in 1..k : path[i] # "REQUIRED" })

\* the levels Dremel reads a LIST column by: the DL from which the list is
\* non-NULL, from which it has an entry, at which the element is non-NULL, and
\* the RL of a further entry
ListLevels(path) ==
    LET rep == CHOOSE k \in 1..Len(path) : path[k] = "REPEATED"
    IN  [list |-> DefinedAt(path, rep - 1), entry |-> DefinedAt(path, rep),
         element |-> DefinedAt(path, Len(path)),
         rl |-> Cardinality({ i \in 1..Len(path) : path[i] = "REPEATED" })]

Malformed == <<"malformed">>

RECURSIVE AssembleList(_, _, _, _, _)
\* Dremel record assembly of a LIST column from the stream s of its element
\* leaf, from record i and value vi on: a record with RL = 0 starts a row (a NULL
\* list, an empty list or a list with its first entry), a record with the list's
\* RL adds an entry to the row's list; an entry with the full DL takes the next
\* value, any other entry is NULL
AssembleList(lv, s, i, vi, out) ==
    IF Len(s.rls) # Len(s.dls) THEN Malformed
    ELSE IF i > Len(s.dls) THEN (IF vi = Len(s.values) + 1 THEN out ELSE Malformed)
    ELSE LET d == s.dls[i]
             r == s.rls[i]
             full == d = lv.element
             entry == IF full THEN Some(s.values[vi]) ELSE None
             vi1 == vi + Bool2Int(full)
         IN  IF (full /\ vi > Len(s.values)) \/ d < 0 \/ d > lv.element
             THEN Malformed
             ELSE IF r = 0
             THEN AssembleList(lv, s, i + 1, vi1,
                      Append(out, IF d < lv.list THEN None
                                  ELSE IF d < lv.entry THEN Some(<<>>)
                                  ELSE Some(<<entry>>)))
             ELSE IF /\ r = lv.rl /\ d >= lv.entry /\ Len(out) > 0
                     /\ out[Len(out)].some /\ Len(out[Len(out)].v) > 0
             THEN AssembleList(lv, s, i + 1, vi1,
                      [out EXCEPT ![Len(out)] = Some(Append(@.v, entry))])
             ELSE Malformed

\* the leaves that hold the elements of an array whose elements may be NULL
ElementLeaves ==
    { id \in Leaves :
        \E k \in 0..(Len(id) - 1) :
            LET a == Node(SubSeq(id, 1, k))
            IN  a.kind = "Array" /\ a.allow_element_null }

\* the array values of column xs in the rows accepted, as Parquet holds them
ListsGiven(id) ==
    [i \in 1..Len(rows) |->
        LET xs == rows[i].cols[1]
        IN  IF xs.some
            THEN Some([k \in 1..Len(xs.v.data) |->
                          IF xs.v.data[k].some
                          THEN Some(MyFrom(Node(id).conversion, xs.v.data[k].v))
                          ELSE None])
            ELSE None]

(* C11: for a column of array type, Dremel record assembly of the (value, DL,  *)
(* RL) stream of the element leaf gives back the arrays of the rows accepted,  *)
(* row by row and element by element: NULL, empty, or the list of its elements *)
(* with the NULL ones in place.                                                *)
C11_ListRoundTrip ==
    (schema = "array" /\ pc # "panicked") =>
        /\ Cardinality(ElementLeaves) = 1
        /\ \A id \in ElementLeaves :
              AssembleList(ListLevels(ElementPath(settings.array_handling)),
                           Stream(id), 1, 1, <<>>) = ListsGiven(id)

C11_Witness ==
    /\ schema = "array" /\ pc = "closed"
    /\ Len(writer) > 1
    /\ \E i, j, k \in 1..Len(rows) :
          /\ ~rows[i].cols[1].some
          /\ rows[j].cols[1].some /\ rows[j].cols[1].v.data = <<>>
          /\ rows[k].cols[1].some /\ Len(rows[k].cols[1].v.data) = 2
          /\ ~rows[k].cols[1].v.data[1].some
          /\ rows[k].cols[1].v.data[2] = Some(7)

\* the appenders that only pass a call on to the one appender they wrap
IsWrapper(id) == Node(id).kind \in {"Box", "PgRow", "Preprocess", "Rc"}

\* the leaves that hold the items of the array appender id themselves
ItemLeaves(id) ==
    { l \in LeavesBelow(id) :
        \A k \in (Len(id) + 1)..(Len(l) - 1) : IsWrapper(SubSeq(l, 1, k)) }

\* three rows of an int[] column: NULL, the empty array and [NULL, 7]
ExampleRows ==
    LET Row(xs) == [cols |-> << xs >>]
    IN  << Row(None), Row(Some(Array1(<< >>))), Row(Some(Array1(<< None, Some(7) >>))) >>

(* C12: an array with n >= 1 items gives the leaf of its items exactly n        *)
(* records, one for each item in order.  The first has the RL the path of the  *)
(* array dictates, every later one the list's max_rl + 1; a present item has   *)
(* DL = max_dl of the inner appender and one value, a NULL item has DL = the   *)
(* list's max_dl + 1 and no value.  The rows NULL, [], [NULL, 7] of an int[]   *)
(* column give DLs 0, 1, 2, 3, RLs 0, 0, 0, 1 and the one value 7.             *)
C12_ArrayItems ==
    pc # "panicked" =>
        /\ \A e \in 1..Len(log) :
              (/\ log[e].op = "copy_value"
               /\ Node(log[e].node).kind = "Array"
               /\ Len(log[e].elems) >= 1) =>
                  LET a == Node(log[e].node)
                      kids == CallsOf(e)
                  IN  /\ Cardinality(kids) = Len(log[e].elems)
                      /\ \A j \in kids, l \in ItemLeaves(log[e].node) :
                            LET k == Cardinality({ i \in kids : i < j }) + 1
                                got == { x \in LeafEvents(l) : x = j \/ CalledWithin(x, j) }
                            IN  /\ log[j].ri = Append(log[e].ri, k - 1)
                                /\ Cardinality(got) = 1
                                /\ \A x \in got :
                                      /\ log[x].ri = Append(log[e].ri, k - 1)
                                      /\ log[x].rl =
                                            <<IF k = 1
                                              THEN PositionRL(Append(log[e].ri, 0))
                                              ELSE max_rl(a) + 1>>
                                      /\ log[x].dl =
                                            <<IF log[e].elems[k] THEN max_dl(a.inner)
                                              ELSE max_dl(a) + 1>>
                                      /\ Len(log[x].val) = Bool2Int(log[e].elems[k])
        /\ (/\ schema = "array"
            /\ rows = ExampleRows) =>
               \A id \in ElementLeaves :
                   Stream(id) = [values |-> <<7>>, dls |-> <<0, 1, 2, 3>>,
                                 rls |-> <<0, 0, 0, 1>>]

C12_Witness ==
    /\ pc = "running"
    /\ schema = "array"
    /\ rows = ExampleRows
    /\ \E e \in 1..Len(log) :
          /\ log[e].op = "copy_value" /\ Node(log[e].node).kind = "Array"
          /\ log[e].elems = <<FALSE, TRUE>>
          /\ ItemLeaves(log[e].node) # {}

\* an inner list that is not the first item of its parent list: its first item
\* has RL 1, its second RL 2
C12_InnerListReached ==
    \E e \in 1..Len(log) :
        /\ pc = "running"
        /\ log[e].op = "copy_value" /\ Node(log[e].node).kind = "Array"
        /\ Len(log[e].elems) = 2 /\ Len(log[e].ri) = 2 /\ log[e].ri[2] > 0
        /\ ItemLeaves(log[e].node) # {}

\* the appender of a composite column's fields: the DynamicMergedAppender that
\* create_complex_appender wraps in an RcWrapperAppender
IsCompositeStruct(id) ==
    /\ Len(id) > 0
    /\ Node(id).kind = "DynamicMerged"
    /\ Node(SubSeq(id, 1, Len(id) - 1)).kind = "Rc"

(* C13: composite totality.  Whenever a composite value is written, the leaf   *)
(* of every declared field receives exactly one record; a record whose         *)
(* num_cols is smaller than the declared field count is written without        *)
(* failure, every missing trailing field as a NULL record, and every field     *)
(* that is present goes to the leaf of its position.                           *)
C13_CompositeTotality ==
    schema = "composite" =>
        /\ pc # "panicked"
        /\ \A e \in 1..Len(log) :
              (log[e].op = "copy_value" /\ IsCompositeStruct(log[e].node)) =>
                  LET fields == rows[Len(rows)].cols[1].v.fields
                  IN  \A i \in 1..Len(Node(log[e].node).columns) :
                        \A l \in LeavesBelow(Append(log[e].node, i)) :
                            LET got == { x \in LeafEvents(l) : CalledWithin(x, e) }
                            IN  /\ Cardinality(got) = 1
                                /\ \A x \in got :
                                      IF i <= Len(fields) /\ fields[i].some
                                      THEN /\ log[x].op = "copy_value"
                                           /\ log[x].dl = <<Node(l).max_dl>>
                                           /\ log[x].val =
                                                 <<MyFrom(Node(l).conversion, fields[i].v)>>
                                      ELSE /\ log[x].op = "write_null"
                                           /\ log[x].dl = <<Node(l).max_dl - 1>>
                                           /\ log[x].val = <<>>

\* C13 for the records that carry every declared field
C13_FullRecordsTotal ==
    (/\ schema = "composite"
     /\ \A i \in 1..Len(rows) :
           rows[i].cols[1].some => Len(rows[i].cols[1].v.fields) = 2
     /\ pc # "panicked") =>
        \A e \in 1..Len(log) :
            (log[e].op = "copy_value" /\ IsCompositeStruct(log[e].node)) =>
                \A l \in LeavesBelow(log[e].node) :
                    Cardinality({ x \in LeafEvents(l) : CalledWithin(x, e) }) = 1

\* no record with fewer fields than declared is ever accepted: its write_row
\* panics
C13_ShortRecordsPanic ==
    schema = "composite" =>
        \A i \in 1..Len(rows) :
            rows[i].cols[1].some => Len(rows[i].cols[1].v.fields) = 2

----------------------------------------------------------------------------
(* Row groups *)

\* the rows a batch holds: its records with RL = 0, or all its records when the
\* column is not repeated
RowsOfBatch(b) ==
    IF b.rls.some THEN CountOf(b.rls.v, 0)
    ELSE IF b.dls.some THEN Len(b.dls.v) ELSE Len(b.values)

\* the rows a leaf holds in its buffers
RowsBuffered(l) ==
    RowsOfBatch([values |-> l.column,
                 dls |-> IF l.dls = <<>> /\ l.rls = <<>> THEN None ELSE Some(l.dls),
                 rls |-> IF l.rls = <<>> THEN None ELSE Some(l.rls)])

\* the buffers of a leaf are all empty
Drained(l) == l.column = <<>> /\ l.dls = <<>> /\ l.rls = <<>>

(* C14: with both limits >= 1, a write_row that returns Ok flushes the row     *)
(* group exactly when the row it appended made the group's row count or byte   *)
(* count reach its limit.  The flush is part of that call: it writes one row   *)
(* group that ends with the row and leaves every buffer empty, so that the     *)
(* next row starts a new group; otherwise the row stays buffered.  Either way  *)
(* both counters end strictly below their limits.                             *)
C14_FlushAtLimit ==
    [][(pc = "running" /\ pc' = "running" /\ stats'.rows = stats.rows + 1) =>
          LET bytes == stats'.bytes - stats.bytes
              reached == \/ current_group_rows + 1 >= settings.row_group_row_limit
                         \/ current_group_bytes + bytes >= settings.row_group_byte_limit
          IN  /\ settings.row_group_row_limit >= 1
              /\ settings.row_group_byte_limit >= 1
              /\ reached =>
                    /\ Len(writer') = Len(writer) + 1
                    /\ \A id \in Leaves :
                          /\ RowsOfBatch(Batch(Len(writer), id)') = current_group_rows + 1
                          /\ Drained(leaf'[id])
                    /\ current_group_rows' = 0
                    /\ current_group_bytes' = 0
              /\ ~reached =>
                    /\ writer' = writer
                    /\ \A id \in Leaves :
                          RowsBuffered(leaf'[id]) = current_group_rows + 1
                    /\ current_group_rows' = current_group_rows + 1
                    /\ current_group_bytes' = current_group_bytes + bytes
              /\ current_group_rows' < settings.row_group_row_limit
              /\ current_group_bytes' < settings.row_group_byte_limit]_vars

\* a row limit of 2: two rows went to the first group, the third is buffered
C14_Witness ==
    /\ pc = "running"
    /\ settings.row_group_row_limit = 2
    /\ stats.rows = 3
    /\ Len(writer) = 1
    /\ current_group_rows = 1
    /\ current_group_bytes > 0

\* a byte limit: a row that reached it ended its group, the next is buffered
C14_ByteLimitReached ==
    /\ pc = "running"
    /\ settings.row_group_byte_limit < NoLimit
    /\ stats.rows = 3
    /\ Len(writer) = 1
    /\ current_group_rows \in {1, 2}

\* the chunks of row group g written for leaf id
ChunksOf(g, id) == { i \in 1..Len(writer[g]) : writer[g][i].column = id }

\* a chunk with no value and no level
EmptyBatch(b) == b.values = <<>> /\ LevelsOf(b.dls) = <<>> /\ LevelsOf(b.rls) = <<>>

(* C15: when no row was ever written, close leaves a file with exactly one row *)
(* group, and that row group holds zero rows: for every leaf of the schema one *)
(* chunk with no value and no level.                                           *)
C15_ZeroRowFile ==
    (pc = "closed" /\ stats.rows = 0) =>
        /\ Len(writer) = 1
        /\ stats.groups = 1
        /\ Len(writer[1]) = Cardinality(Leaves)
        /\ \A id \in Leaves :
              /\ Cardinality(ChunksOf(1, id)) = 1
              /\ EmptyBatch(Batch(1, id))
              /\ RowsOfBatch(Batch(1, id)) = 0

C15_Witness ==
    /\ pc = "closed"
    /\ stats.rows = 0
    /\ rows = <<>>
    /\ Cardinality(Leaves) > 1
    /\ \E id \in Leaves : Node(id).max_rl > 0

\* a batch or buffer of a repeated column starts at the start of a row
StartsAtRow(rls) == rls # <<>> => rls[1] = 0

RECURSIVE RowsBefore(_, _)
\* the rows the row groups before g hold, as the column of leaf id counts them
RowsBefore(g, id) ==
    IF g <= 1 THEN 0 ELSE RowsBefore(g - 1, id) + RowsOfBatch(Batch(g - 1, id))

(* C16: rows are never split across row groups.  Every row group holds, for    *)
(* every leaf, the records of the same whole rows: every chunk starts at the   *)
(* start of a row and all chunks of a group hold the same number of rows, and  *)
(* so do the buffers between two write_row calls.  For an array column the     *)
(* lists assembled from the chunk of one row group alone are the arrays of     *)
(* exactly the rows of that group.                                             *)
C16_RowsNotSplit ==
    pc # "panicked" =>
        /\ \A g \in 1..Len(writer) :
              \A id \in Leaves :
                  /\ Cardinality(ChunksOf(g, id)) = 1
                  /\ StartsAtRow(LevelsOf(Batch(g, id).rls))
                  /\ \A other \in Leaves :
                        RowsOfBatch(Batch(g, id)) = RowsOfBatch(Batch(g, other))
        /\ \A id \in Leaves :
              /\ StartsAtRow(leaf[id].rls)
              /\ RowsBuffered(leaf[id]) = current_group_rows
        /\ schema = "array" =>
              \A g \in 1..Len(writer) :
                  \A id \in ElementLeaves :
                      LET b == Batch(g, id)
                          first == RowsBefore(g, id) + 1
                      IN  AssembleList(ListLevels(ElementPath(settings.array_handling)),
                                       [values |-> b.values, dls |-> LevelsOf(b.dls),
                                        rls |-> LevelsOf(b.rls)], 1, 1, <<>>)
                          = SubSeq(ListsGiven(id), first,
                                   first + RowsOfBatch(b) - 1)

C16_Witness ==
    /\ pc = "closed"
    /\ Len(writer) = 2
    /\ \E id, other \in Leaves :
          /\ id # other
          /\ Node(id).max_rl > 0 /\ Node(other).max_rl = 0
          /\ RowsOfBatch(Batch(1, id)) = 2
          /\ Len(LevelsOf(Batch(1, id).rls)) > 2
          /\ RowsOfBatch(Batch(2, id)) = 1
          /\ Len(LevelsOf(Batch(2, id).rls)) > 1

----------------------------------------------------------------------------
(* Flushes *)

\* a step in which ParquetRowWriter::flush_group has run to its end
FlushStep == Len(writer') = Len(writer) + 1

\* a step in which write_column of the byte-buffer leaf s has run to its end
ByteLeafFlushStep(s, t) ==
    /\ s.kind \in {"ByteArray", "FixedByteArray"}
    /\ pc' = "running"
    /\ t.n = s.n
    /\ t # s

\* the path of the last record the calls l gave the leaf id, t when they gave none
LastPath(l, id, t) ==
    LET got == { i \in 1..Len(l) : l[i].node = id /\ l[i].rl # <<>> }
    IN  IF got = {} THEN t ELSE l[CHOOSE i \in got : \A j \in got : j <= i].ri

\* the buffers of a byte-buffer leaf are all empty
ByteLeafDrained(s) ==
    /\ s.byte_buffer = <<>> /\ s.dls = <<>> /\ s.rls = <<>>
    /\ s.kind = "ByteArray" => s.offsets = <<>>

(* C17: after a flush that succeeded every buffer of every leaf is empty (the  *)
(* values, DLs and RLs; for a byte-array leaf also the offsets and the byte    *)
(* buffer), and the flush has changed neither the leaf's tracker, which still  *)
(* remembers the path of the last record it was given, nor its max_dl and      *)
(* max_rl.                                                                     *)
C17_FlushKeepsTracker ==
    [][/\ FlushStep =>
             /\ appender' = appender
             /\ \A id \in Leaves :
                   /\ Drained(leaf'[id])
                   /\ leaf'[id].repetition_index =
                         IF pc' = "closed" THEN leaf[id].repetition_index
                         ELSE LastPath(log', id, leaf[id].repetition_index)
       /\ ByteLeafFlushStep(ba, ba') =>
             /\ ByteLeafDrained(ba')
             /\ ba'.repetition_index = ba.repetition_index
             /\ ba'.max_dl = ba.max_dl /\ ba'.max_rl = ba.max_rl
       /\ ByteLeafFlushStep(fba, fba') =>
             /\ ByteLeafDrained(fba')
             /\ fba'.repetition_index = fba.repetition_index
             /\ fba'.max_dl = fba.max_dl /\ fba'.max_rl = fba.max_rl]_vars

\* two rows of a repeated column have been flushed by write_row: the buffers are
\* empty and the tracker remembers the last item of the second row
C17_Witness ==
    /\ pc = "running"
    /\ Len(writer) = 1
    /\ stats.rows = 2
    /\ \A id \in Leaves : Drained(leaf[id])
    /\ \E id \in Leaves :
          /\ Node(id).max_rl = 1
          /\ leaf[id].repetition_index = <<1, 1>>

\* a byte-array leaf has been flushed after its tracker had moved
C17_ByteLeafFlushed ==
    /\ ba.kind = "ByteArray"
    /\ ba.batch.some /\ Len(ba.batch.v.values) > 0
    /\ ByteLeafDrained(ba)
    /\ ba.max_rl = 1 /\ ba.repetition_index[2] > 0 /\ ba.repetition_index[2] < USIZE_MAX

\* s without what the model remembers of its last write_column
Unobserved(s) == [s EXCEPT !.batch = None]

(* C18: flush idempotence.  A flush of a leaf whose buffers are all empty (the *)
(* flush of close when nothing is buffered, a write_column of a byte-buffer    *)
(* leaf that holds nothing) writes a chunk with no value and no level and      *)
(* leaves the leaf as it was; and whatever a leaf holds, flushing it twice     *)
(* leaves it as flushing it once does.                                         *)
C18_FlushIdempotent ==
    [][/\ (FlushStep /\ pc' = "closed" /\ \A id \in Leaves : Drained(leaf[id])) =>
             /\ leaf' = leaf
             /\ \A id \in Leaves : EmptyBatch(Batch(Len(writer), id)')
       /\ \A id \in Leaves :
             LET once == GenericColumnAppender_write_column(Node(id), leaf[id])
                 twice == GenericColumnAppender_write_column(Node(id), once.s)
             IN  twice.s = once.s /\ EmptyBatch(twice.batch)
       /\ (ByteLeafFlushStep(ba, ba') /\ ByteLeafDrained(ba)) =>
             /\ Unobserved(ba') = Unobserved(ba)
             /\ EmptyBatch(ba'.batch.v)
       /\ ba.kind = "ByteArray" =>
             LET once == ByteArrayColumnAppender_write_column(ba)
                 twice == ByteArrayColumnAppender_write_column(once.s)
             IN  once.ok => (twice.ok /\ Unobserved(twice.s) = Unobserved(once.s)
                             /\ EmptyBatch(twice.s.batch.v))
       /\ (ByteLeafFlushStep(fba, fba') /\ ByteLeafDrained(fba)) =>
             /\ Unobserved(fba') = Unobserved(fba)
             /\ EmptyBatch(fba'.batch.v)
       /\ fba.kind = "FixedByteArray" =>
             LET once == FixedByteArrayColumnAppender_write_column(fba)
                 twice == FixedByteArrayColumnAppender_write_column(once.s)
             IN  /\ Unobserved(twice.s) = Unobserved(once.s)
                 /\ EmptyBatch(twice.s.batch.v)]_vars

\* a write_row has flushed a row group at its limit and close, with nothing
\* buffered, has flushed again
C18_Witness ==
    /\ pc = "closed"
    /\ Len(writer) = 2
    /\ stats.rows = 2
    /\ \A id \in Leaves :
          /\ RowsOfBatch(Batch(1, id)) = 2
          /\ EmptyBatch(Batch(2, id))
    /\ \E id \in Leaves : Node(id).max_rl = 1 /\ leaf[id].repetition_index = <<1, 1>>

\* a byte-buffer leaf has been flushed with nothing buffered, after a flush of
\* what it had held
C18_ByteLeafFlushedTwice ==
    \E s \in {ba, fba} :
        /\ s.kind \in {"ByteArray", "FixedByteArray"}
        /\ s.n > 0
        /\ ByteLeafDrained(s)
        /\ s.batch.some /\ EmptyBatch(s.batch.v)

----------------------------------------------------------------------------
(* The closed file *)

\* the DLs a top-level column of a simple type gets for the rows accepted
ColumnDLs(i) == [r \in 1..Len(rows) |-> Bool2Int(rows[r].cols[i].some)]

\* the values it gets
RECURSIVE ColumnValues(_, _, _)
ColumnValues(i, conversion, r) ==
    IF r = 0 THEN <<>>
    ELSE ColumnValues(i, conversion, r - 1)
         \o (IF rows[r].cols[i].some THEN <<MyFrom(conversion, rows[r].cols[i].v)>>
             ELSE <<>>)

(* C19: close flushes a last row group and then finalises the file.  After a   *)
(* close that succeeded every buffer is empty and the row groups written hold, *)
(* for every leaf, as many rows as write_row has accepted (stats.rows), every  *)
(* row in one row group: the columns of the row groups, one after the other,   *)
(* are the columns of the rows accepted.                                       *)
C19_CloseWritesEveryRow ==
    pc = "closed" =>
        /\ stats.rows = Len(rows)
        /\ stats.groups = Len(writer)
        /\ Len(writer) >= 1
        /\ \A id \in Leaves :
              /\ Drained(leaf[id])
              /\ RowsBefore(Len(writer) + 1, id) = stats.rows
              /\ \A g \in 1..Len(writer) : Cardinality(ChunksOf(g, id)) = 1
        /\ schema = "array" =>
              \A id \in ElementLeaves :
                  AssembleList(ListLevels(ElementPath(settings.array_handling)),
                               StreamUpTo(id, Len(writer)), 1, 1, <<>>) = ListsGiven(id)
        /\ schema = "flat" =>
              \A i \in 1..Len(columns) :
                  \A id \in LeavesBelow(<<1, i>>) :
                      /\ StreamUpTo(id, Len(writer)).dls = ColumnDLs(i)
                      /\ StreamUpTo(id, Len(writer)).values =
                            ColumnValues(i, Node(id).conversion, Len(rows))

\* three rows, two in the row group write_row flushed at its limit and the last
\* in the row group close flushed
C19_Witness ==
    /\ pc = "closed"
    /\ stats.rows = 3
    /\ Len(writer) = 2
    /\ \A id \in Leaves :
          RowsOfBatch(Batch(1, id)) = 2 /\ RowsOfBatch(Batch(2, id)) = 1
    /\ \E id \in Leaves : Node(id).max_rl > 0 /\ Len(Batch(2, id).values) > 1

\* the same for a flat row: the values of the last row are in the last row group
C19_FlatClosed ==
    /\ pc = "closed" /\ schema = "flat"
    /\ stats.rows = 3 /\ Len(writer) = 2
    /\ \A id \in Leaves : Len(Batch(2, id).values) = 1

----------------------------------------------------------------------------
(* The decimal column of the query "numeric" as the file holds it.             *)

\* the leaf of the column amount
AmountLeaf == CHOOSE id \in Leaves : TRUE

\* the integer the column stores for the decimal d = m * 10^(-d.scale) is
\* m * 10^k, k being the column's scale less d.scale (no number of this model
\* has k < 0)
ScaledExponent(d) == settings.decimal_scale - d.scale

\* the integer m * 10^k is above i32::MAX (the column has INT32 storage, its
\* precision being 9 or less) or above i64::MAX (INT64 storage)
Overflows(d) ==
    LET k == ScaledExponent(d)
        m == d.int_val.m
    IN  IF settings.decimal_precision <= 9
        THEN k > 9 \/ (k > 0 /\ m > 2147483647 \div 10^k)
        ELSE k > 18 \/ (k >= 10 /\ m > 922337203 \div 10^(k - 10))

\* the decimal has no more digits than the column's precision
WithinPrecision(d) ==
    DecimalDigits(d.int_val.m) + ScaledExponent(d) <= settings.decimal_precision

\* the amount of a row is written as a NULL: it is NULL, NaN or out of range
NullAmount(amount) ==
    ~amount.some \/ ~amount.v.n.some \/ Overflows(amount.v.n.v)

\* how many of the rows 1..r carry a value
ValueIndex(r) == Cardinality({ q \in 1..r : ~NullAmount(rows[q].cols[1]) })

C20_Int64Overflow ==
    /\ schema = "numeric" /\ settings.decimal_precision = 18
    /\ pc = "closed"
    /\ Len(rows) = 3
    /\ rows[1].cols[1] = Some(PgNumeric(Some(BigDecimal(5, -12))))
    /\ rows[2].cols[1] = Some(PgNumeric(Some(BigDecimal(5, -20))))
    /\ rows[3].cols[1] = Some(PgNumeric(Some(BigDecimal(12345, 2))))
    /\ Stream(AmountLeaf).dls = <<1, 0, 1>>
    /\ Stream(AmountLeaf).values = <<BigInt(5, 14), BigInt(12345, 0)>>

\* a decimal with more digits than the precision whose scaled integer fits the
\* storage is not a conversion error: 999999.99 in a column of precision 5 and
\* scale 2 is written as the value 100000000
C20_BeyondPrecisionIsAValue ==
    /\ schema = "numeric" /\ settings.decimal_precision = 5
    /\ Len(rows) = 1
    /\ rows[1].cols[1] = Some(PgNumeric(Some(BigDecimal(99999999, 2))))
    /\ Stream(AmountLeaf).dls = <<1>>
    /\ Stream(AmountLeaf).values = <<BigInt(1, 8)>>

----------------------------------------------------------------------------
(* The warnings of an export.                                                  *)

\* the warnings of one kind written so far
Warnings(kind) == { i \in 1..Len(stderr) : stderr[i].warning = kind }

\* the rows accepted whose amount is out of the range of the decimal column
OverflowRows ==
    { r \in 1..Len(rows) :
        LET amount == rows[r].cols[1]
        IN  amount.some /\ amount.v.n.some /\ Overflows(amount.v.n.v) }

(* C21: over an export in which one or more values of an INT32 / INT64 decimal *)
(* column cannot be represented, the overflow warning is on stderr exactly     *)
(* once: it is written for the first such value and not for the later ones.    *)
C21_WarnedOnce ==
    schema = "numeric" =>
        Cardinality(Warnings("decimal")) = IF OverflowRows = {} THEN 0 ELSE 1

\* what convert_decimal_to_int does: one warning for every value out of range
C21_WarnedEveryTime ==
    schema = "numeric" =>
        Cardinality(Warnings("decimal")) = Cardinality(OverflowRows)

\* two values out of range have been written as NULLs, with two warnings
C21_TwoWarnings ==
    /\ schema = "numeric"
    /\ Cardinality(OverflowRows) = 2
    /\ Cardinality(Warnings("decimal")) = 2

----------------------------------------------------------------------------
(* C22: a schema-mapping error (a result column whose type, at any nesting    *)
(* depth, is not supported) ends the export before the output file is created *)
(* or truncated: the output path stays untouched, no writer is created and no *)
(* row is read.                                                               *)

RECURSIVE Supported(_)
\* the PostgreSQL types of this model that the planner maps
Supported(t) ==
    CASE t.kind = "Simple" -> t.name \in {"bool", "numeric", "int4", "text", "vector"}
      [] t.kind \in {"Array", "Domain", "Range"} -> Supported(t.elem)
      [] t.kind = "Composite" -> \A i \in 1..Len(t.fields) : Supported(t.fields[i].type)
      [] OTHER -> FALSE

UnsupportedQuery == \E i \in 1..Len(columns) : ~Supported(columns[i].type)

C22_SchemaErrorLeavesOutput ==
    UnsupportedQuery =>
        /\ file = "untouched"
        /\ pc \in {"connect", "prepare", "map_schema", "failed"}
        /\ rows = <<>> /\ io = <<>>

\* the export has ended on the mapping error of a type nested in an array of
\* composites
C22_Witness ==
    /\ schema = "unsupported nested"
    /\ fail = NoFailure
    /\ pc = "failed"
    /\ file = "untouched"

----------------------------------------------------------------------------
(* C23: an error of the row loop is fatal.  The flush_group in which a call   *)
(* of the file writer fails never completes and no later one is made; once    *)
(* write_row (or any other call of execute_copy) has returned an error, no    *)
(* row is read or appended, no call is made on the file writer and the file   *)
(* is left as it is, without a footer.                                        *)

C23_ErrorsAreFatal ==
    [][/\ pc = "failed" =>
             /\ pc' = pc /\ rows' = rows /\ leaf' = leaf /\ stats' = stats
             /\ io' = io /\ writer' = writer /\ file' = file
       /\ fail.group >= 1 => stats'.groups < fail.group
       /\ pc' = "failed" => file' # "finalised"]_vars

\* write_row has returned the error of a write_batch of its flush_group while the
\* query had more rows; the process has exited and the file has no footer
C23_Witness ==
    /\ pc = "failed"
    /\ fail.at = "write_batch"
    /\ row_group_is_full(current_group_bytes, current_group_rows)
    /\ stats.rows < MaxRows
    /\ file = "created"
    /\ exit # <<>>

----------------------------------------------------------------------------
(* C24: exit codes.  The process exits with 0 exactly when the export          *)
(* succeeded (the file was finalised) and with 1 after every failure.         *)

C24_ExitCodes ==
    exit # <<>> => exit = (IF pc = "closed" THEN <<0>> ELSE <<1>>)

\* what holds instead: 1 after every error that execute_copy returns, 0 after
\* success, and neither after a panic
C24_ReturnedErrorsExitOne ==
    exit # <<>> =>
        /\ pc = "closed" => exit = <<0>>
        /\ pc = "failed" => exit = <<1>>
        /\ pc = "panicked" => exit \notin {<<0>>, <<1>>}

\* the output file could not be created and the process has exited
C24_CreateFailed ==
    /\ fail.at = "create"
    /\ exit # <<>>

\* a value of the second row could not be decoded and the process has exited
C24_DecodeFailed ==
    /\ fail = Failure("decode", 2, 0)
    /\ stats.rows = 1
    /\ exit # <<>>

----------------------------------------------------------------------------
(* C25: a range column.  For every row the five children lower, upper,         *)
(* lower_inclusive, upper_inclusive and is_empty receive the components of the *)
(* row's range: the bounds (NULL when absent), the inclusivity of the lower    *)
(* and of the upper bound and the emptiness; an empty range is decoded to      *)
(* NULL, NULL, false, false, true and a NULL range is a NULL record (DL 0) in  *)
(* all five.                                                                   *)

RECURSIVE LeavesInOrder(_, _)
\* the leaves of the tree a at path id in the order write_columns visits them
LeavesInOrder(a, id) ==
    IF a.kind = "Generic" THEN <<id>>
    ELSE LET RECURSIVE loop(_)
             loop(i) == IF i > Len(Children(a)) THEN <<>>
                        ELSE LeavesInOrder(Children(a)[i], Append(id, i)) \o loop(i + 1)
         IN  loop(1)

\* the position of a child of the range among the leaves: the order of the
\* fields of the group that map_schema_column builds for Kind::Range, and the
\* order of the columns of RangeColumnAppender
RangeChildIndex(name) ==
    IF schema = "RangeColumnAppender"
    THEN (CASE name = "lower" -> 1 [] name = "upper" -> 2 [] name = "is_empty" -> 3
            [] name = "lower_inclusive" -> 4 [] name = "upper_inclusive" -> 5)
    ELSE (CASE name = "lower" -> 1 [] name = "upper" -> 2
            [] name = "lower_inclusive" -> 3 [] name = "upper_inclusive" -> 4
            [] name = "is_empty" -> 5)

RangeChild(name) == LeavesInOrder(appender, <<>>)[RangeChildIndex(name)]

\* the r-th record of the leaf id (which is not under a list): its DL and, when
\* the DL is max_dl, its value
RecordOf(id, r) ==
    LET s == Stream(id)
        k == Cardinality({ i \in 1..r : s.dls[i] = Node(id).max_dl })
    IN  IF s.dls[r] = Node(id).max_dl
        THEN [dl |-> s.dls[r], val |-> Some(s.values[k])]
        ELSE [dl |-> s.dls[r], val |-> None]

\* the record a child of the range column is to receive for the value x
RangeRecord(name, x) ==
    IF ~x.some THEN [dl |-> 0, val |-> None]
    ELSE CASE name = "lower" ->
                 IF x.v.lower.some THEN [dl |-> 2, val |-> Some(x.v.lower.v)]
                 ELSE [dl |-> 1, val |-> None]
           [] name = "upper" ->
                 IF x.v.upper.some THEN [dl |-> 2, val |-> Some(x.v.upper.v)]
                 ELSE [dl |-> 1, val |-> None]
           [] name = "lower_inclusive" -> [dl |-> 2, val |-> Some(x.v.lower_inclusive)]
           [] name = "upper_inclusive" -> [dl |-> 2, val |-> Some(x.v.upper_inclusive)]
           [] name = "is_empty" -> [dl |-> 2, val |-> Some(x.v.is_empty)]

RangeChildren == {"lower", "upper", "lower_inclusive", "upper_inclusive", "is_empty"}

C25_UpperInclusiveOnly ==
    /\ schema \in {"range", "RangeColumnAppender"}
    /\ \E r \in 1..Len(rows) :
          /\ rows[r].cols[1].some
          /\ rows[r].cols[1].v.upper_inclusive /\ ~rows[r].cols[1].v.lower_inclusive

\* an empty range, a NULL range and a range with both bounds have been appended
C25_EmptyNullAndBounded ==
    /\ schema \in {"range", "RangeColumnAppender"}
    /\ Len(rows) = 3
    /\ rows[1].cols[1].some /\ rows[1].cols[1].v.is_empty
    /\ ~rows[2].cols[1].some
    /\ rows[3].cols[1].some /\ rows[3].cols[1].v.lower.some /\ rows[3].cols[1].v.upper.some

----------------------------------------------------------------------------
(* C26: the interval conversion carries full days.  For every interval         *)
(* (months, days, us) the value stored has days + floor(us / 86_400_000_000)   *)
(* days and (us mod 86_400_000_000) / 1000 milliseconds, the months unchanged, *)
(* for every 64-bit us.                                                        *)

\* floor(us / 86_400_000_000) and (us mod 86_400_000_000) / 1000
FloorDays(us) ==
    LET millis_total == Div1000(us.limbs)
        dm == LongDivMod(Div1000(millis_total), 86400, 0, 0)
        m == dm.r * 1000 + Mod1000(millis_total)
        exact == m = 0 /\ Mod1000(us.limbs) = 0
    IN  IF ~us.neg THEN [days |-> dm.q, millis |-> m]
        ELSE IF exact THEN [days |-> -dm.q, millis |-> 0]
        ELSE [days |-> -dm.q - 1,
              millis |-> IF Mod1000(us.limbs) = 0 THEN 86400000 - m
                         ELSE 86400000 - m - 1]

FirstLeaf == LeavesInOrder(appender, <<>>)[1]

\* the interval of row r is stored with the days carried as the claim says
Carried(r) ==
    LET t == rows[r].cols[1].v
        f == FloorDays(t.microseconds)
        sum == I32_add(t.days, f.days)
    IN  /\ ~sum.overflow
        /\ RecordOf(FirstLeaf, r).val =
              Some([months |-> t.months, days |-> sum.v, millis |-> f.millis])

C26_IntervalCarry ==
    schema = "interval" /\ pc # "panicked" =>
        \A r \in 1..Len(rows) : rows[r].cols[1].some => Carried(r)

\* what holds instead: the days are carried as the claim says when the
\* microseconds are not negative and the sum of the days fits an i32
C26_NonNegativeCarry ==
    schema = "interval" /\ pc # "panicked" =>
        \A r \in 1..Len(rows) :
            LET x == rows[r].cols[1]
            IN  x.some /\ ~x.v.microseconds.neg /\ x.v.days # I32_MAX => Carried(r)

\* the interval of one day and one hour and 999 microseconds has been stored
\* with its day carried
C26_DayCarried ==
    /\ schema = "interval"
    /\ \E r \in 1..Len(rows) :
          /\ rows[r].cols[1] = Some(PgInterval(I64(FALSE, <<90, 0, 0, 999>>), 3, 14))
          /\ RecordOf(FirstLeaf, r).val =
                Some([months |-> 14, days |-> 4, millis |-> 3600000])

\* the interval of -1 second has been stored with -1000 milliseconds
C26_NegativeMillis ==
    /\ schema = "interval"
    /\ \E r \in 1..Len(rows) :
          /\ rows[r].cols[1] = Some(PgInterval(I64(TRUE, <<1, 0, 0>>), 3, 14))
          /\ RecordOf(FirstLeaf, r).val =
                Some([months |-> 14, days |-> 3, millis |-> -1000])

----------------------------------------------------------------------------
(* C27: a flush_group requests exactly one column chunk per leaf appender and  *)
(* visits the leaves depth-first in schema order: the number of next_column    *)
(* requests of a flush equals the number of leaves of the Parquet schema, and  *)
(* the i-th chunk of every row group is written by the appender of the i-th    *)
(* leaf of the schema: the i-th leaf of the appender tree in depth-first       *)
(* order, whose physical type and maximal levels are those of the i-th column  *)
(* of the schema.                                                              *)

\* the columns of the schema the file writer was created with
SchemaLeaves ==
    SchemaDescriptor_leaves(map_schema_root_schema(columns, settings), <<>>, 0, 0)

\* the leaf appenders in the depth-first order of the tree
AppenderLeaves == LeavesInOrder(appender, <<>>)

\* the leaf appender at path id writes the column col of the schema
WritesColumn(id, col) ==
    LET a == NodeAt(appender, id)
    IN  /\ get_physical_type(a.conversion) = col.physical_type
        /\ a.max_dl = col.max_def_level
        /\ a.max_rl = col.max_rep_level

\* the columns requested by the flush_group of the last write_row or close
NextColumnCalls == SelectSeq(io, LAMBDA c : c.op = "next_column")

C27_ChunkPerSchemaLeaf ==
    /\ Len(AppenderLeaves) = Len(SchemaLeaves)
    /\ \A i \in 1..Len(AppenderLeaves) : WritesColumn(AppenderLeaves[i], SchemaLeaves[i])
    /\ io # <<>> =>
          /\ Len(NextColumnCalls) = Len(SchemaLeaves)
          /\ \A i \in 1..Len(NextColumnCalls) : NextColumnCalls[i].column = i
    /\ \A g \in 1..Len(writer) :
          /\ Len(writer[g]) = Len(SchemaLeaves)
          /\ \A i \in 1..Len(writer[g]) : writer[g][i].column = AppenderLeaves[i]

\* two row groups written for a schema whose leaves sit below structs and
\* lists: the array with its dimensions and lower bounds
C27_Witness ==
    /\ schema = "array" /\ settings.array_handling = "DimensionsAndLowerBound"
    /\ Len(SchemaLeaves) = 3
    /\ Len(writer) = 2
    /\ Len(NextColumnCalls) = 3
    /\ \E i \in 1..3 : writer[2][i].batch.values # <<>>

\* the five columns of a range, flushed by close
C27_RangeFlushed ==
    /\ schema = "range" /\ pc = "closed"
    /\ [i \in 1..Len(SchemaLeaves) |-> SchemaLeaves[i].path] =
          <<(<<"r", "lower">>), (<<"r", "upper">>), (<<"r", "lower_inclusive">>),
            (<<"r", "upper_inclusive">>), (<<"r", "is_empty">>)>>
    /\ Len(writer[Len(writer)]) = 5

----------------------------------------------------------------------------
(* C28: during a flush at most one column chunk is open at any moment: the     *)
(* column chunk a leaf obtained from next_column is closed before the next     *)
(* leaf calls next_column, and it is closed also when the leaf's write_batch   *)
(* returned an error; no column chunk is open when the flush returns.          *)

\* the calls of the last flush that concern a column chunk
ColumnCalls ==
    SelectSeq(io, LAMBDA c : c.op \in {"next_column", "write_batch", "close_column"})

\* the i-th of these calls returned a column chunk writer: a next_column that
\* did not return an error
Opens(i) ==
    /\ ColumnCalls[i].op = "next_column"
    /\ ~(/\ i = Len(ColumnCalls)
          /\ fail = Failure("next_column", ColumnCalls[i].column, stats.groups + 1))

\* the column chunks open after the first i of these calls
OpenAfter(i) ==
    { k \in 1..Len(AppenderLeaves) :
        \E j \in 1..i :
            /\ Opens(j) /\ ColumnCalls[j].column = k
            /\ \A h \in (j + 1)..i :
                  ~(ColumnCalls[h].op = "close_column" /\ ColumnCalls[h].column = k) }

C28_OneColumnOpen ==
    appender.kind \notin {"None", "Err", "Panic"} =>
        /\ \A i \in 1..Len(ColumnCalls) :
              /\ Cardinality(OpenAfter(i)) <= 1
              /\ ColumnCalls[i].op = "next_column" => OpenAfter(i - 1) = {}
              /\ ColumnCalls[i].op = "write_batch" =>
                    /\ OpenAfter(i) = {ColumnCalls[i].column}
                    /\ i < Len(ColumnCalls)
                    /\ ColumnCalls[i + 1] = IoCall("close_column", ColumnCalls[i].column)
        /\ OpenAfter(Len(ColumnCalls)) = {}

\* the write_batch of the first of two columns failed, and its column chunk was
\* closed before flush_group returned the error
C28_Witness ==
    /\ pc = "failed" /\ fail.at = "write_batch" /\ fail.column = 1
    /\ Len(AppenderLeaves) >= 2
    /\ io[Len(io)] = IoCall("close_column", 1)
    /\ io[Len(io) - 1] = IoCall("write_batch", 1)

\* a flush that opened and closed the two column chunks of a composite in turn
C28_TwoColumnsInTurn ==
    /\ schema = "composite" /\ fail = NoFailure
    /\ ColumnCalls = <<IoCall("next_column", 1), IoCall("write_batch", 1),
                       IoCall("close_column", 1), IoCall("next_column", 2),
                       IoCall("write_batch", 2), IoCall("close_column", 2)>>

----------------------------------------------------------------------------
(* C29: the warning about flattened multi-dimensional arrays is one-shot.  For *)
(* an array column exported in the plain mode the warning is on stderr exactly *)
(* once as soon as a row with an array of more than one dimension has been     *)
(* written, however many such rows follow, and not before; in the modes that   *)
(* keep the dimensions it is never written.                                    *)

\* the rows written whose array has more than one dimension
MultidimRows ==
    { r \in 1..Len(rows) :
        LET xs == rows[r].cols[1]
        IN  xs.some /\ xs.v.dims.some }

C29_MultidimWarnedOnce ==
    (schema = "array" /\ pc # "panicked") =>
        Cardinality(Warnings("multidim")) =
            IF settings.array_handling = "Plain" /\ MultidimRows # {} THEN 1 ELSE 0

\* two rows with two-dimensional arrays after a row with a one-dimensional one,
\* flattened in the plain mode, and one warning
C29_Witness ==
    /\ schema = "array" /\ settings.array_handling = "Plain"
    /\ MultidimRows = {2, 3}
    /\ rows[1].cols[1].some
    /\ Cardinality(Warnings("multidim")) = 1

\* two rows with two-dimensional arrays written with their dimensions, and no
\* warning
C29_DimensionsKept ==
    /\ schema = "array" /\ settings.array_handling = "Dimensions"
    /\ MultidimRows = {1, 2}
    /\ stderr = <<>>

----------------------------------------------------------------------------
(* C30: in INT64 mode a macaddr with the bytes b0..b5 is stored as the 64-bit  *)
(* integer whose two most significant bytes are zero and whose six low-order   *)
(* bytes are b0..b5, a value between 0 and 2^48 - 1.                           *)

C30_MacaddrLowOrderBytes ==
    schema = "macaddr" =>
        \A r \in 1..Len(rows) :
            rows[r].cols[1].some =>
                LET v == RecordOf(FirstLeaf, r).val.v
                IN  /\ v[1] = 0 /\ v[2] = 0
                    /\ SubSeq(v, 3, 8) = rows[r].cols[1].v

\* what holds instead: the six bytes are the six high-order bytes of the
\* integer and its two low-order bytes are zero
C30_MacaddrHighOrderBytes ==
    schema = "macaddr" =>
        \A r \in 1..Len(rows) :
            rows[r].cols[1].some =>
                LET v == RecordOf(FirstLeaf, r).val.v
                IN  /\ SubSeq(v, 1, 6) = rows[r].cols[1].v
                    /\ v[7] = 0 /\ v[8] = 0

\* the address 01:02:03:04:05:06 has been stored
C30_MacaddrStored ==
    /\ schema = "macaddr"
    /\ \E r \in 1..Len(rows) : rows[r].cols[1] = Some(<<1, 2, 3, 4, 5, 6>>)


----------------------------------------------------------------------------
(* C31: in the int enum mode every enum value is stored as the 1-based         *)
(* position of its label in the declared order of the labels of its type: for  *)
(* every row written with a label of the type, the value stored is n for the   *)
(* n-th label.                                                                 *)

\* the position (1-based) of a label among the declared labels
MoodPosition(name) == CHOOSE n \in 1..Len(Moods) : Moods[n] = name

\* the leaf of the enum column stores integers
StoresEnumAsInt ==
    NodeAt(appender, FirstLeaf).conversion \in {"mapping.get", "PgEnum->i32"}

\* the r-th row stores the 1-based position of its label
OneBased(r) ==
    LET e == rows[r].cols[1]
        rec == RecordOf(FirstLeaf, r)
    IN  (e.some /\ \E n \in 1..Len(Moods) : Moods[n] = e.v.name) =>
            rec.val = Some(MoodPosition(e.v.name))

C31_PlannerOneBased ==
    (schema = "enum" /\ StoresEnumAsInt /\ pc # "panicked") =>
        \A r \in 1..Len(rows) : OneBased(r)

\* the first and the last label written by the planner's int enum mode
C31_FirstAndLastLabel ==
    /\ schema = "enum" /\ StoresEnumAsInt /\ pc = "closed"
    /\ Len(rows) = 2
    /\ rows[1].cols[1] = Some([name |-> "sad"])
    /\ rows[2].cols[1] = Some([name |-> "happy"])

----------------------------------------------------------------------------
(* C32.  Every array appender the planner constructs has an element appender   *)
(* whose maximal repetition level is the array's own plus one and whose        *)
(* maximal definition level is the array's own plus one, plus one more when    *)
(* the elements may be NULL; so neither the checks of ArrayColumnAppender::new *)
(* nor the level assertions of the planner fail: no part of a planned tree     *)
(* panicked.                                                                   *)

\* the array appenders of the planned tree
ArrayIds == { id \in NodeIds(appender, <<>>) : NodeAt(appender, id).kind = "Array" }

\* C32: the levels of every array appender planned and of its element appender
C32_ArrayLevelsFit ==
    /\ ~Panics(appender)
    /\ \A id \in ArrayIds :
          LET a == NodeAt(appender, id)
          IN  /\ max_rl(a.inner) = a.rl + 1
              /\ max_dl(a.inner) = a.dl + 1 + Bool2Int(a.allow_element_null)
              /\ max_rl(a) = a.rl
              /\ max_dl(a) = a.dl

\* an array of arrays or of composites with an array field, planned with both
\* sidecars: six array appenders or more, the inner ones at repetition level 1
C32_Witness ==
    /\ settings.array_handling = "DimensionsAndLowerBound"
    /\ Cardinality(ArrayIds) >= 6
    /\ \E id \in ArrayIds : NodeAt(appender, id).rl = 1 /\ NodeAt(appender, id).allow_element_null
    /\ \E id \in ArrayIds : NodeAt(appender, id).rl = 1 /\ ~NodeAt(appender, id).allow_element_null

----------------------------------------------------------------------------
(* C33.  The children of a struct appender the planner builds (root row,       *)
(* composite, range, interval struct, sidecar struct, sparsevec entry) all     *)
(* have the struct's max_rl and one common max_dl.  The common max_dl is the   *)
(* struct's own where the children are REQUIRED fields (the data, dims and     *)
(* lower_bound lists of a sidecar struct, the key and value of a sparsevec     *)
(* entry) and the struct's max_dl + 1 where they are OPTIONAL fields (root     *)
(* row, composite, range, interval struct).                                    *)

\* the struct appenders of the planned tree: a DynamicMergedAppender, or the
\* outermost StaticMergedAppenderImpl of a chain
StructIds ==
    { id \in NodeIds(appender, <<>>) :
        \/ NodeAt(appender, id).kind = "DynamicMerged"
        \/ /\ NodeAt(appender, id).kind = "StaticImpl"
           /\ NodeAt(appender, SubSeq(id, 1, Len(id) - 1)).kind # "StaticImpl" }

RECURSIVE StaticChildren(_)
\* the appenders added to a static struct, the last added first
StaticChildren(a) ==
    IF a.kind = "StaticImpl" THEN <<a.appender>> \o StaticChildren(a.next) ELSE <<>>

\* the child appenders of a struct appender
StructChildren(a) == IF a.kind = "DynamicMerged" THEN a.columns ELSE StaticChildren(a)

RECURSIVE Unwrapped(_)
\* the appender below the wrappers Box, Rc, BasicPgRowColumnAppender
Unwrapped(a) ==
    CASE a.kind \in {"Box", "Rc"} -> Unwrapped(a.inner)
      [] a.kind = "PgRow" -> Unwrapped(a.appender)
      [] OTHER -> a

\* whether the fields of the struct are REQUIRED in the schema: the struct of an
\* array with sidecars and the entry of a sparsevec
RequiredFields(a) ==
    /\ a.kind = "StaticImpl"
    /\ \E i \in 1..Len(StaticChildren(a)) :
          LET ch == Unwrapped(StaticChildren(a)[i])
          IN  \/ ch.kind = "Preprocess" /\ ch.f \in {"data", "dims", "lower_bound"}
              \/ ch.kind = "Generic" /\ ch.conversion \in {"|v| v.0 + 1", "|v| v.1"}

\* C33 as amended: the levels of the children of every struct appender planned
C33_StructChildrenLevels ==
    /\ ~Panics(appender)
    /\ \A id \in StructIds :
          LET a == NodeAt(appender, id)
              ch == StructChildren(a)
          IN  \A i \in 1..Len(ch) :
                 /\ max_rl(ch[i]) = max_rl(a)
                 /\ max_dl(ch[i]) = max_dl(a) + Bool2Int(~RequiredFields(a))

\* C33 as stated: the children of every struct appender have the struct's levels
C33_ChildrenAtStructLevels ==
    \A id \in StructIds :
        LET a == NodeAt(appender, id)
            ch == StructChildren(a)
        IN  \A i \in 1..Len(ch) :
               max_rl(ch[i]) = max_rl(a) /\ max_dl(ch[i]) = max_dl(a)

\* an array with a sidecar struct whose elements are composites with an interval
\* struct: structs with REQUIRED and with OPTIONAL fields, at two repetition
\* levels
C33_Witness ==
    /\ \E id \in StructIds : RequiredFields(NodeAt(appender, id))
    /\ \E id \in StructIds : /\ NodeAt(appender, id).kind = "DynamicMerged"
                             /\ max_rl(NodeAt(appender, id)) = 1
    /\ \E id \in StructIds :
          LET a == NodeAt(appender, id)
          IN  /\ a.kind = "StaticImpl" /\ ~RequiredFields(a)
              /\ max_rl(a) = 1 /\ Len(StructChildren(a)) = 3

----------------------------------------------------------------------------
(* C34.  For every leaf of a planned tree, the leaf appender's max_dl is the   *)
(* number of OPTIONAL or REPEATED types on the path of its column in the       *)
(* schema and its max_rl the number of REPEATED types on that path; they are   *)
(* the levels of the column descriptor the leaf compares its own with at       *)
(* flush time.                                                                 *)

RECURSIVE RepetitionsOn(_, _)
\* the repetitions of the types on a path below the group type, outermost first
RepetitionsOn(type, path) ==
    IF path = <<>> THEN <<>>
    ELSE LET i == CHOOSE k \in 1..Len(type.fields) : type.fields[k].name = Head(path)
         IN  <<type.fields[i].repetition>> \o RepetitionsOn(type.fields[i], Tail(path))

\* how many of the repetitions are in the set
CountIn(reps, set) == Cardinality({ i \in 1..Len(reps) : reps[i] \in set })

\* the planner returned a tree
Planned == appender.kind = "Box"

\* C34: the levels of the leaves and the repetitions of the schema agree
C34_LevelsMatchSchema ==
    Planned =>
        /\ Len(AppenderLeaves) = Len(SchemaLeaves)
        /\ \A i \in 1..Len(AppenderLeaves) :
              LET a == NodeAt(appender, AppenderLeaves[i])
                  reps == RepetitionsOn(map_schema_root_schema(columns, settings),
                                        SchemaLeaves[i].path)
              IN  /\ a.max_dl = CountIn(reps, {"OPTIONAL", "REPEATED"})
                  /\ a.max_rl = CountIn(reps, {"REPEATED"})
                  /\ a.max_dl = SchemaLeaves[i].max_def_level
                  /\ a.max_rl = SchemaLeaves[i].max_rep_level

\* a list of lists was planned: a leaf below two REPEATED and three OPTIONAL
\* types or more, next to leaves of the sidecar lists
C34_Witness ==
    /\ Planned
    /\ \E id \in LeafIds(appender) :
          NodeAt(appender, id).max_rl = 2 /\ NodeAt(appender, id).max_dl >= 5
    /\ \E id \in LeafIds(appender) :
          NodeAt(appender, id).max_rl = 1 /\ NodeAt(appender, id).max_dl = 2

----------------------------------------------------------------------------
(* C35.  copy_and_diff of a tracker of level m with a path of level m returns  *)
(* the smallest level at which the remembered index differs from the path's,   *)
(* returns m when no level below m differs, and leaves the remembered indexes  *)
(* equal to the path's at every level.                                         *)

\* the levels at which the indexes remembered before the last call differ from
\* the path's
DifferingLevels ==
    { i \in 0..LevelIndexList_level(log[1].other) :
        log[1].indexes[i + 1] # log[1].other[i + 1] }

\* C35: the result and the effect of the last copy_and_diff
C35_DiffIsOutermostChange ==
    log # <<>> =>
        /\ log[1].ok
        /\ DifferingLevels # {} =>
              /\ log[1].result \in DifferingLevels
              /\ \A i \in DifferingLevels : log[1].result <= i
        /\ (\A i \in DifferingLevels : i >= appender.max_rl) =>
              log[1].result = appender.max_rl
        /\ leaf[<<>>].repetition_index = log[1].other

\* a path of level 2 that differs from the remembered indexes at levels 1 and 2
\* only, and one that does not differ at all
C35_Witness ==
    /\ log # <<>>
    /\ appender.max_rl = 2
    /\ DifferingLevels = {1, 2}
    /\ log[1].result = 1

C35_WitnessNoChange ==
    /\ log # <<>>
    /\ appender.max_rl = 2
    /\ DifferingLevels = {}
    /\ log[1].result = 2

----------------------------------------------------------------------------
(* C36: with the dimensions and the lower bounds written next to an array,     *)
(* the lower_bound list of every non-NULL array has one entry for each         *)
(* dimension: as many entries as the dims list of the same row, for the        *)
(* constant lower bound of a one-dimensional array and for the per-dimension   *)
(* lower bounds of an array of more dimensions.                                *)

\* the leaf of the sidecar list the closure f projects
SidecarLeaf(f) ==
    CHOOSE id \in Leaves :
        \E k \in 0..(Len(id) - 1) :
            LET a == Node(SubSeq(id, 1, k))
            IN  a.kind = "Preprocess" /\ a.f = f

\* the sidecar list f of every row, assembled from the stream of its leaf
SidecarLists(f) ==
    AssembleList(ListLevels(<<"OPTIONAL", "REQUIRED", "REPEATED", "REQUIRED">>),
                 Stream(SidecarLeaf(f)), 1, 1, <<>>)

\* the number of dimensions of a decoded array
Dimensions(x) ==
    IF x.dims.some THEN Len(x.dims.v) ELSE IF Len(x.data) = 0 THEN 0 ELSE 1

C36_LowerBoundPerDimension ==
    (/\ schema = "array" /\ settings.array_handling = "DimensionsAndLowerBound"
     /\ pc # "panicked") =>
        /\ Len(SidecarLists("dims")) = Len(rows)
        /\ Len(SidecarLists("lower_bound")) = Len(rows)
        /\ \A r \in 1..Len(rows) :
              rows[r].cols[1].some =>
                 /\ SidecarLists("dims")[r].some
                 /\ SidecarLists("lower_bound")[r].some
                 /\ Len(SidecarLists("lower_bound")[r].v) = Len(SidecarLists("dims")[r].v)
                 /\ Len(SidecarLists("lower_bound")[r].v) = Dimensions(rows[r].cols[1].v)

\* a two-dimensional array with per-dimension lower bounds, a one-dimensional
\* array of two elements with its constant lower bound, and an empty array
C36_Witness ==
    /\ schema = "array" /\ settings.array_handling = "DimensionsAndLowerBound"
    /\ pc = "closed"
    /\ \E i, j, k \in 1..Len(rows) :
          /\ rows[i].cols[1].some /\ rows[i].cols[1].v.lower_bounds.kind = "PerDim"
          /\ SidecarLists("lower_bound")[i] = Some(<<Some(1), Some(1)>>)
          /\ rows[j].cols[1].some /\ rows[j].cols[1].v.lower_bounds.kind = "Const"
          /\ Len(rows[j].cols[1].v.data) = 2
          /\ SidecarLists("lower_bound")[j] = Some(<<Some(1)>>)
          /\ rows[k].cols[1].some /\ rows[k].cols[1].v.data = <<>>
          /\ SidecarLists("lower_bound")[k] = Some(<<>>)

----------------------------------------------------------------------------
(* C37.  The values the byte-array leaf hands to write_batch at a flush are    *)
(* the non-null values appended since its previous flush, in their order and   *)
(* byte for byte, the zero-length ones included (also when every value is of   *)
(* zero length); after the flush the offsets table and the byte buffer are     *)
(* empty.                                                                      *)

\* a step of the byte-array leaf is a write_column: no call was counted
ByteArrayFlushed == ba.kind = "ByteArray" /\ ba' # ba /\ ba'.n = ba.n

C37_FlushHandsAppendedValues ==
    [][ByteArrayFlushed =>
          /\ pc' = "running"
          /\ ba'.batch.some
          /\ ba'.batch.v.values = log
          /\ Len(log) = Cardinality({ i \in 1..Len(ba.dls) : ba.dls[i] = ba.max_dl })
          /\ ba'.offsets = <<>>
          /\ ba'.byte_buffer = <<>>]_vars

\* a flush of two zero-length values and nothing else, and one of a zero-length
\* value between two values of one byte
C37_Witness ==
    /\ ba.kind = "ByteArray" /\ ba.batch.some
    /\ ba.batch.v.values = <<(<<>>), (<<>>)>>
    /\ ba.offsets = <<>> /\ ba.byte_buffer = <<>> /\ log = <<>>

C37_WitnessMixed ==
    /\ ba.kind = "ByteArray" /\ ba.batch.some
    /\ ba.batch.v.values = <<(<<77>>), (<<>>), (<<77>>)>>
    /\ ba.offsets = <<>> /\ ba.byte_buffer = <<>> /\ log = <<>>

----------------------------------------------------------------------------
(* C38 is about a flush of the fixed-length leaf whose byte buffer is not a    *)
(* multiple of its length.  append hands the conversion the buffer as a slice, *)
(* which cannot grow, so the buffer of the leaf is empty in every state:       *)
(* there is no such flush, and write_column writes the 0 = 0 / length values   *)
(* of its first branch.                                                        *)
FixedBufferStaysEmpty == fba.kind = "FixedByteArray" => fba.byte_buffer = <<>>

----------------------------------------------------------------------------
(* C39.  An export of N rows with the row limit L >= 1 whose byte limit is     *)
(* never reached has, once closed, floor(N / L) + 1 row groups: every group    *)
(* but the last holds L rows and the last holds N mod L rows, none when N is a *)
(* multiple of L.                                                              *)

\* the rows of row group g, counted in each of its column chunks
RowsOfGroup(g) == { RowsOfBatch(Batch(g, id)) : id \in Leaves }

C39_RowGroupCount ==
    (/\ pc = "closed"
     /\ settings.row_group_byte_limit = NoLimit
     /\ settings.row_group_row_limit >= 1) =>
        LET L == settings.row_group_row_limit
            N == stats.rows
        IN  /\ N = Len(rows)
            /\ Len(writer) = (N \div L) + 1
            /\ stats.groups = (N \div L) + 1
            /\ \A g \in 1..(Len(writer) - 1) : RowsOfGroup(g) = {L}
            /\ RowsOfGroup(Len(writer)) = {N % L}

\* three rows under the row limit 2: a group of two rows and a group of one;
\* two rows under the row limit 2: a group of two rows and an empty one
C39_Witness ==
    /\ pc = "closed" /\ settings.row_group_row_limit = 2
    /\ stats.rows = 3 /\ Len(writer) = 2
    /\ RowsOfGroup(1) = {2} /\ RowsOfGroup(2) = {1}

C39_WitnessMultiple ==
    /\ pc = "closed" /\ settings.row_group_row_limit = 2
    /\ stats.rows = 2 /\ Len(writer) = 2
    /\ RowsOfGroup(1) = {2} /\ RowsOfGroup(2) = {0}

----------------------------------------------------------------------------
(* C40: an error of a column chunk ends flush_group at once.  When one of the  *)
(* three calls of the k-th leaf's column chunk fails, the calls made on the    *)
(* file writer end with that chunk: the leaves before it have been written and *)
(* drained, no later leaf is written or drained (each still buffers every row  *)
(* of the group), the row group is not closed, stats.groups is not incremented *)
(* and the row and byte counters of the group are not reset.                   *)

\* the calls of a column chunk
ColumnFailures == {"next_column", "write_batch", "close_column"}

\* this step is a flush_group that returned the error of a column chunk
ChunkFailed == pc = "running" /\ pc' = "failed" /\ fail.at \in ColumnFailures

\* the calls flush_group makes up to the failing call of the k-th column chunk
CallsUntilFailure(at, k) ==
    LET RECURSIVE whole(_)
        whole(n) == IF n = 0 THEN <<IoCall("next_row_group", 0)>>
                    ELSE whole(n - 1) \o <<IoCall("next_column", n),
                                           IoCall("write_batch", n),
                                           IoCall("close_column", n)>>
    IN  IF at = "next_column" THEN Append(whole(k - 1), IoCall("next_column", k))
        ELSE whole(k)

C40_FlushStopsAtFailedChunk ==
    [][ChunkFailed =>
          LET k == fail.column
              ids == AppenderLeaves
              appended == stats'.rows - stats.rows
          IN  /\ k <= Len(ids)
              /\ io' = CallsUntilFailure(fail.at, k)
              /\ \A j \in 1..Len(ids) :
                    /\ j < k => /\ Drained(leaf'[ids[j]])
                                /\ written'[ids[j]].chunks = written[ids[j]].chunks + 1
                    /\ j > k => /\ RowsBuffered(leaf'[ids[j]]) = current_group_rows'
                                /\ written'[ids[j]] = written[ids[j]]
              /\ fail.at # "close_column" =>
                    /\ RowsBuffered(leaf'[ids[k]]) = current_group_rows'
                    /\ written'[ids[k]] = written[ids[k]]
              /\ stats'.groups = stats.groups
              /\ stats'.groups = fail.group - 1
              /\ writer' = writer
              /\ appended \in {0, 1}
              /\ current_group_rows' = current_group_rows + appended
              /\ current_group_bytes' = current_group_bytes + (stats'.bytes - stats.bytes)]_vars

\* the second row group of a two-column export failed at the first column
\* chunk: the second leaf still buffers the row of the group
C40_Witness ==
    /\ pc = "failed" /\ fail = Failure("next_column", 1, 2)
    /\ Len(AppenderLeaves) >= 2
    /\ stats.groups = 1 /\ Len(writer) = 1
    /\ current_group_rows >= 1
    /\ io = <<IoCall("next_row_group", 0), IoCall("next_column", 1)>>
    /\ \A j \in 1..Len(AppenderLeaves) : ~Drained(leaf[AppenderLeaves[j]])

\* the close of the first of two column chunks failed: the first leaf is
\* drained, the second is not
C40_WitnessClose ==
    /\ pc = "failed" /\ fail.at = "close_column" /\ fail.column = 1
    /\ Len(AppenderLeaves) >= 2
    /\ current_group_rows >= 1
    /\ Drained(leaf[AppenderLeaves[1]])
    /\ ~Drained(leaf[AppenderLeaves[2]])

====
